---------------------------- MODULE Spec2Model ----------------------------
(***************************************************************************)
(* Circuit editor (src/unnamed/part_000): the circuit document (comps,     *)
(* wires, autoNodes), the editing handlers that mutate it, and the         *)
(* resolution passes that read it (generateNetlist, the payload of runSim, *)
(* probePort, probeWire, computeNetMapping).                               *)
(*                                                                         *)
(* JavaScript values: strings are TLA+ strings; undefined and null are the *)
(* reserved strings Undefined and Null (no label of the model equals       *)
(* them); a plain object used as a map is either a function (uf, whose key *)
(* order is never observed) or a sequence of <<key, value>> pairs in       *)
(* insertion order (reps, whose Object.keys order decides the numbering).  *)
(* Screen coordinates of components, rotation and dragging only feed the   *)
(* rendering and are left out; the coordinates of clicks on empty canvas   *)
(* are kept, since junctions are identified by their snapped position.     *)
(***************************************************************************)
EXTENDS Integers, Sequences, FiniteSets, TLC

VARIABLES
  comps,          \* line 11: components placed, in declaration order
  wires,          \* line 12: wires placed, in creation order
  autoNodes,      \* line 13: junctions created by clicking empty space
  mode,           \* line 14: current tool
  placing,        \* line 15: component of a placement in progress
  activePort,     \* line 15: first endpoint of a wiring gesture
  selected,       \* line 15: current selection
  lastSimResult,  \* line 16: last solver response
  idCounter,      \* line 17: next wire number
  panel,          \* the object the 'selected' side panel was built for (lines 435-467)
  inflight,       \* solve requests sent and not yet answered (line 601)
  out,            \* what the last event showed (alert, prompt, results panel, or an
                  \* exception it raised); NullObj when it showed nothing
  hist,           \* history of the terminals: what the editing actions did to them
  events,         \* number of events of the editing session so far
  ufp,            \* line 611: this.p of a UF_custom object under test
  ufg,            \* line 553: uf of generateNetlist's find/union under the same calls
  ufPairs,        \* the pairs {a, b} passed to union so far
  ufLast,         \* the last call made on the two forests, and ufp, ufg before it
  simLog          \* history of the solve requests: which of inflight were overtaken,
                  \* and the answer to the latest request answered so far

vars == <<comps, wires, autoNodes, mode, placing, activePort, selected,
          lastSimResult, idCounter, panel, inflight, out, hist, events,
          ufp, ufg, ufPairs, ufLast, simLog>>

docVars == <<comps, wires, autoNodes>>

ufVars == <<ufp, ufg, ufPairs, ufLast>>

-----------------------------------------------------------------------------
(* JavaScript values *)

Undefined == "undefined"
Null == "null"

\* null or undefined where the other values are objects
NullObj == [kind |-> "null"]

\* ToBoolean of a string-or-undefined-or-null value: the operand of || and &&.
Truthy(v) == v \notin {Undefined, Null, ""}

\* a || b
Or(a, b) == IF Truthy(a) THEN a ELSE b

Ports == <<"n1", "n2">>

\* comps.find(c => c.name === name): the index of the first match, 0 if none.
CompsFind(name) ==
  IF \E i \in 1..Len(comps) : comps[i].name = name
  THEN CHOOSE i \in 1..Len(comps) :
         comps[i].name = name /\ \A j \in 1..(i-1) : comps[j].name # name
  ELSE 0

\* A component value: a number (by its decimal text), a string, or undefined.
Num(t) == [kind |-> "number", text |-> t]

\* c.value once the user typed a text that is no number in the prompt
Str(t) == [kind |-> "string", text |-> t]

\* c.value === undefined
UndefValue == [kind |-> "undefined", text |-> Undefined]

\* parseFloat on the texts the user types: the decimal text of the number that the
\* longest numeric prefix denotes, "NaN" when there is none
parseFloat(t) ==
  CASE t = "47" -> "47"
    [] t = "0" -> "0"
    [] t = "4x" -> "4"
    [] OTHER -> "NaN"

\* ToBoolean of a component value: the operand of c.value || default.
ValTruthy(v) ==
  CASE v.kind = "number" -> v.text \notin {"0", "NaN"}
    [] v.kind = "string" -> v.text # ""
    [] OTHER -> FALSE

\* The largest integer whose decimal string the model recognises as an
\* integer-like ("array index") property key.
MaxIndexKey == 9

IndexKeys == [i \in 1..(MaxIndexKey + 1) |-> ToString(i - 1)]

IsIndexKey(k) == \E i \in 1..Len(IndexKeys) : IndexKeys[i] = k

\* An object as a sequence of <<key, value>> pairs in insertion order.
ObjHas(obj, k) == \E i \in 1..Len(obj) : obj[i][1] = k

ObjGet(obj, k) ==
  IF ObjHas(obj, k) THEN obj[CHOOSE i \in 1..Len(obj) : obj[i][1] = k][2] ELSE Undefined

ObjSet(obj, k, v) ==
  IF ObjHas(obj, k)
  THEN [i \in 1..Len(obj) |-> IF obj[i][1] = k THEN <<k, v>> ELSE obj[i]]
  ELSE Append(obj, <<k, v>>)

\* Object.keys: integer-like keys in ascending numeric order, then the other
\* string keys in insertion order.
ObjectKeys(obj) ==
  SelectSeq(IndexKeys, LAMBDA k : ObjHas(obj, k))
    \o SelectSeq([i \in 1..Len(obj) |-> obj[i][1]], LAMBDA k : ~IsIndexKey(k))

-----------------------------------------------------------------------------
(* Union-find: the closures of generateNetlist (lines 554-555) and        *)
(* UF_custom (611).  A forest is a function key -> parent; find returns    *)
(* the forest it leaves behind (registration and path compression) and the *)
(* representative.                                                         *)

EmptyObj == [k \in {} |-> k]

RECURSIVE GN_find(_, _)
GN_find(uf, a) ==
  LET uf1 == IF a \in DOMAIN uf THEN uf ELSE uf @@ (a :> a)
  IN IF uf1[a] = a
     THEN [uf |-> uf1, r |-> a]
     ELSE LET up == GN_find(uf1, uf1[a])
          IN [uf |-> [up.uf EXCEPT ![a] = up.r], r |-> up.r]

\* A faulty union, to test C17: b linked under a without looking for the
\* representatives
GN_unionNoFind(uf, a, b) ==
  LET fa == GN_find(uf, a)
      fb == GN_find(fa.uf, b)
  IN IF a # b THEN [fb.uf EXCEPT ![b] = a] ELSE fb.uf

GN_union(uf, a, b) ==
  LET fa == GN_find(uf, a)
      fb == GN_find(fa.uf, b)
  IN IF fa.r # fb.r THEN [fb.uf EXCEPT ![fb.r] = fa.r] ELSE fb.uf

RECURSIVE UF_find(_, _)
UF_find(p, a) ==
  LET p1 == IF a \in DOMAIN p THEN p ELSE p @@ (a :> a)
  IN IF p1[a] = a
     THEN [uf |-> p1, r |-> a]
     ELSE LET up == UF_find(p1, p1[a])
          IN [uf |-> [up.uf EXCEPT ![a] = up.r], r |-> up.r]

\* A faulty union, to test C16: the representative of b's set made the parent of the
\* representative of a's set
UF_unionReversed(p, a, b) ==
  LET fa == UF_find(p, a)
      fb == UF_find(fa.uf, b)
  IN IF fa.r # fb.r THEN [fb.uf EXCEPT ![fa.r] = fb.r] ELSE fb.uf

UF_union(p, a, b) ==
  LET fa == UF_find(p, a)
      fb == UF_find(fa.uf, b)
  IN IF fa.r # fb.r THEN [fb.uf EXCEPT ![fb.r] = fa.r] ELSE fb.uf

\* No union-find object is under test.
\* No solve request followed yet
NoLog == [late |-> <<>>, newest |-> NullObj]

UFIdle == ufp = EmptyObj /\ ufg = EmptyObj /\ ufPairs = {} /\ ufLast = NullObj

-----------------------------------------------------------------------------
(* generateNetlist, lines 552-582 *)

\* c.n1 || (c.name+'_n1'), c[k] || (c.name+'_'+k)
GN_key(c, k) == Or(c[k], c.name \o "_" \o k)

\* line 556: comps.forEach(c => { find(a); find(b); })
RECURSIVE GN_regComps(_, _)
GN_regComps(uf, i) ==
  IF i > Len(comps) THEN uf
  ELSE LET a == GN_key(comps[i], "n1")
           b == GN_key(comps[i], "n2")
       IN GN_regComps(GN_find(GN_find(uf, a).uf, b).uf, i + 1)

\* line 557: autoNodes.forEach(n => find(n.id))
RECURSIVE GN_regNodes(_, _)
GN_regNodes(uf, i) ==
  IF i > Len(autoNodes) THEN uf
  ELSE GN_regNodes(GN_find(uf, autoNodes[i].id).uf, i + 1)

\* lines 560-563: the identity key of a wire endpoint
GN_wireKey(p) ==
  IF p.isNode THEN p.nodeId
  ELSE LET ai == CompsFind(p.comp)
       IN Or(IF ai # 0 THEN Or(comps[ai][p.port], comps[ai].name \o "_" \o p.port)
                       ELSE Undefined,
             p.comp \o "_" \o p.port)

\* lines 558-565: wires.forEach(w => union(aName, bName))
RECURSIVE GN_unionWires(_, _)
GN_unionWires(uf, i) ==
  IF i > Len(wires) THEN uf
  ELSE GN_unionWires(GN_union(uf, GN_wireKey(wires[i].p1), GN_wireKey(wires[i].p2)), i + 1)

\* line 567, one terminal: r = find(lbl); if(!(r in reps)) reps[r] = '0' or null
GN_visit(st, c, k) ==
  LET lbl == GN_key(c, k)
      f == GN_find(st.uf, lbl)
  IN [uf |-> f.uf,
      reps |-> IF ObjHas(st.reps, f.r) THEN st.reps
               ELSE ObjSet(st.reps, f.r, IF lbl = "0" \/ c[k] = "0" THEN "0" ELSE Null)]

\* line 567: comps.forEach(c => ['n1','n2'].forEach(k => ...))
RECURSIVE GN_repsComps(_, _)
GN_repsComps(st, i) ==
  IF i > Len(comps) THEN st
  ELSE GN_repsComps(GN_visit(GN_visit(st, comps[i], "n1"), comps[i], "n2"), i + 1)

\* line 568: autoNodes.forEach(n => { r = find(n.id); if(!(r in reps)) reps[r] = null })
RECURSIVE GN_repsNodes(_, _)
GN_repsNodes(st, i) ==
  IF i > Len(autoNodes) THEN st
  ELSE LET f == GN_find(st.uf, autoNodes[i].id)
       IN GN_repsNodes([uf |-> f.uf,
                        reps |-> IF ObjHas(st.reps, f.r) THEN st.reps
                                 ELSE ObjSet(st.reps, f.r, Null)], i + 1)

\* A faulty numbering, to test C9: with idx never incremented ('N'+idx)
RECURSIVE GN_numberSameIdx(_, _, _)
GN_numberSameIdx(reps, keys, idx) ==
  IF keys = <<>> THEN reps
  ELSE IF ObjGet(reps, Head(keys)) = Null
       THEN GN_numberSameIdx(ObjSet(reps, Head(keys), "N" \o ToString(idx)), Tail(keys), idx)
       ELSE GN_numberSameIdx(reps, Tail(keys), idx)

\* line 569: Object.keys(reps).forEach(r => { if(reps[r]===null) reps[r] = 'N'+(idx++) })
RECURSIVE GN_number(_, _, _)
GN_number(reps, keys, idx) ==
  IF keys = <<>> THEN reps
  ELSE IF ObjGet(reps, Head(keys)) = Null
       THEN GN_number(ObjSet(reps, Head(keys), "N" \o ToString(idx)), Tail(keys), idx + 1)
       ELSE GN_number(reps, Tail(keys), idx)

\* lines 553-569: the forest and the names of the representatives
GN_resolve ==
  LET uf == GN_unionWires(GN_regNodes(GN_regComps(EmptyObj, 1), 1), 1)
      st == GN_repsNodes(GN_repsComps([uf |-> uf, reps |-> <<>>], 1), 1)
  IN [uf |-> st.uf, reps |-> GN_number(st.reps, ObjectKeys(st.reps), 1)]

\* lines 572-573: reps[find(c.n1 || (c.name+'_n1'))] || '0'
GN_node(res, c, k) == Or(ObjGet(res.reps, GN_find(res.uf, GN_key(c, k)).r), "0")

\* A faulty line, to test C14: the keyword DC on the line of every type
GN_lineAlwaysDC(c, n1, n2) ==
  <<c.name, n1, n2, "DC", IF ValTruthy(c.value) THEN c.value.text ELSE "0">>

\* A faulty line, to test C12: the chain of tests without the branches of the sources
GN_lineNoSource(c, n1, n2) ==
  CASE c.type = "R" -> <<c.name, n1, n2, IF ValTruthy(c.value) THEN c.value.text ELSE "1000">>
    [] c.type = "C" -> <<c.name, n1, n2, IF ValTruthy(c.value) THEN c.value.text ELSE "0.000001">>
    [] c.type = "L" -> <<c.name, n1, n2, IF ValTruthy(c.value) THEN c.value.text ELSE "0.001">>
    [] c.type = "D" -> <<c.name, n1, n2, "Dmodel">>
    [] OTHER -> <<>>

\* lines 574-579: one line, as its space-separated tokens
GN_line(c, n1, n2) ==
  CASE c.type = "R" -> <<c.name, n1, n2, IF ValTruthy(c.value) THEN c.value.text ELSE "1000">>
    [] c.type = "V" -> <<c.name, n1, n2, "DC", IF ValTruthy(c.value) THEN c.value.text ELSE "5">>
    [] c.type = "I" -> <<c.name, n1, n2, "DC", IF ValTruthy(c.value) THEN c.value.text ELSE "0.001">>
    [] c.type = "C" -> <<c.name, n1, n2, IF ValTruthy(c.value) THEN c.value.text ELSE "0.000001">>
    [] c.type = "L" -> <<c.name, n1, n2, IF ValTruthy(c.value) THEN c.value.text ELSE "0.001">>
    [] c.type = "D" -> <<c.name, n1, n2, "Dmodel">>
    [] OTHER -> <<>>

\* lines 570-581: the lines of the netlist (joined by "\n" in the text), a
\* component of an unknown type giving no line
RECURSIVE GN_lines(_, _, _)
GN_lines(res, i, lines) ==
  IF i > Len(comps) THEN lines
  ELSE LET c == comps[i]
           f1 == GN_find(res.uf, GN_key(c, "n1"))
           n1 == Or(ObjGet(res.reps, f1.r), "0")
           f2 == GN_find(f1.uf, GN_key(c, "n2"))
           n2 == Or(ObjGet(res.reps, f2.r), "0")
           ln == GN_line(c, n1, n2)
       IN GN_lines([res EXCEPT !.uf = f2.uf], i + 1,
                   IF ln = <<>> THEN lines ELSE Append(lines, ln))

\* A faulty generateNetlist, to test C10: idx kept from the call before (declared outside the function),
\* so that a second call in a row goes on numbering where the first stopped
generateNetlistKeepingIdx ==
  LET uf == GN_unionWires(GN_regNodes(GN_regComps(EmptyObj, 1), 1), 1)
      st == GN_repsNodes(GN_repsComps([uf |-> uf, reps |-> <<>>], 1), 1)
      idx == IF "lines" \in DOMAIN out THEN 1 + Len(st.reps) ELSE 1
  IN GN_lines([uf |-> st.uf, reps |-> GN_number(st.reps, ObjectKeys(st.reps), idx)],
              1, <<>>)

generateNetlist == GN_lines(GN_resolve, 1, <<>>)

-----------------------------------------------------------------------------
(* runSim, lines 585-599: the payload *)

\* c.n1 || c.name+'_n1', c[k] || (c.name+'_'+k)
RS_key(c, k) == Or(c[k], c.name \o "_" \o k)

\* line 588
RECURSIVE RS_regComps(_, _)
RS_regComps(p, i) ==
  IF i > Len(comps) THEN p
  ELSE RS_regComps(UF_find(UF_find(p, RS_key(comps[i], "n1")).uf,
                           RS_key(comps[i], "n2")).uf, i + 1)

\* line 589
RECURSIVE RS_regNodes(_, _)
RS_regNodes(p, i) ==
  IF i > Len(autoNodes) THEN p
  ELSE RS_regNodes(UF_find(p, autoNodes[i].id).uf, i + 1)

\* A faulty key, to test C11: the payload's key of a wire endpoint taken from the
\* names only, whatever label the terminal carries
RS_wireKeyByName(p) ==
  IF p.isNode THEN p.nodeId ELSE p.comp \o "_" \o p.port

\* lines 591-592: isNode ? nodeId : ((comps.find(..)||{})[port] || (comp + '_' + port))
RS_wireKey(p) ==
  IF p.isNode THEN p.nodeId
  ELSE LET ai == CompsFind(p.comp)
       IN Or(IF ai # 0 THEN comps[ai][p.port] ELSE Undefined, p.comp \o "_" \o p.port)

\* lines 590-594
RECURSIVE RS_unionWires(_, _)
RS_unionWires(p, i) ==
  IF i > Len(wires) THEN p
  ELSE RS_unionWires(UF_union(p, RS_wireKey(wires[i].p1), RS_wireKey(wires[i].p2)), i + 1)

\* A faulty visit, to test C6: the payload's pass without the test for the ground label
RS_visitNoGround(st, c, k) ==
  LET lab == RS_key(c, k)
      f == UF_find(st.uf, lab)
  IN [uf |-> f.uf,
      reps |-> IF ObjHas(st.reps, f.r) THEN st.reps ELSE ObjSet(st.reps, f.r, Null)]

\* line 596, one terminal
RS_visit(st, c, k) ==
  LET lab == RS_key(c, k)
      f == UF_find(st.uf, lab)
  IN [uf |-> f.uf,
      reps |-> IF ObjHas(st.reps, f.r) THEN st.reps
               ELSE ObjSet(st.reps, f.r, IF lab = "0" \/ c[k] = "0" THEN "0" ELSE Null)]

\* line 596
RECURSIVE RS_repsComps(_, _)
RS_repsComps(st, i) ==
  IF i > Len(comps) THEN st
  ELSE RS_repsComps(RS_visit(RS_visit(st, comps[i], "n1"), comps[i], "n2"), i + 1)

\* line 597
RECURSIVE RS_repsNodes(_, _)
RS_repsNodes(st, i) ==
  IF i > Len(autoNodes) THEN st
  ELSE LET f == UF_find(st.uf, autoNodes[i].id)
       IN RS_repsNodes([uf |-> f.uf,
                        reps |-> IF ObjHas(st.reps, f.r) THEN st.reps
                                 ELSE ObjSet(st.reps, f.r, Null)], i + 1)

\* line 598
RECURSIVE RS_number(_, _, _)
RS_number(reps, keys, mi) ==
  IF keys = <<>> THEN reps
  ELSE IF ObjGet(reps, Head(keys)) = Null
       THEN RS_number(ObjSet(reps, Head(keys), "N" \o ToString(mi)), Tail(keys), mi + 1)
       ELSE RS_number(reps, Tail(keys), mi)

\* lines 587-598
RS_resolve ==
  LET p == RS_unionWires(RS_regNodes(RS_regComps(EmptyObj, 1), 1), 1)
      st == RS_repsNodes(RS_repsComps([uf |-> p, reps |-> <<>>], 1), 1)
  IN [uf |-> st.uf, reps |-> RS_number(st.reps, ObjectKeys(st.reps), 1)]

\* line 599: comps.map(c => ({type, name, n1, n2, value}))
RECURSIVE RS_components(_, _, _)
RS_components(res, i, recs) ==
  IF i > Len(comps) THEN recs
  ELSE LET c == comps[i]
           f1 == UF_find(res.uf, RS_key(c, "n1"))
           n1 == Or(ObjGet(res.reps, f1.r), "0")
           f2 == UF_find(f1.uf, RS_key(c, "n2"))
           n2 == Or(ObjGet(res.reps, f2.r), "0")
       IN RS_components([res EXCEPT !.uf = f2.uf], i + 1,
                        Append(recs, [type |-> c.type, name |-> c.name, n1 |-> n1,
                                      n2 |-> n2, value |-> c.value]))

RS_payload == [components |-> RS_components(RS_resolve, 1, <<>>)]

-----------------------------------------------------------------------------
(* probePort and probeWire, lines 614-639 *)

PP_key(c, k) == Or(c[k], c.name \o "_" \o k)

\* line 617
RECURSIVE PP_regComps(_, _)
PP_regComps(p, i) ==
  IF i > Len(comps) THEN p
  ELSE PP_regComps(UF_find(UF_find(p, PP_key(comps[i], "n1")).uf,
                           PP_key(comps[i], "n2")).uf, i + 1)

\* line 618
RECURSIVE PP_regNodes(_, _)
PP_regNodes(p, i) ==
  IF i > Len(autoNodes) THEN p
  ELSE PP_regNodes(UF_find(p, autoNodes[i].id).uf, i + 1)

\* A faulty key, to test C5: the probe's key of a wire endpoint taken from the names only,
\* whatever label the terminal carries
PP_wireKeyByName(p) ==
  IF p.isNode THEN p.nodeId ELSE p.comp \o "_" \o p.port

\* line 619: the identity key of a wire endpoint
PP_wireKey(p) ==
  IF p.isNode THEN p.nodeId
  ELSE LET ai == CompsFind(p.comp)
       IN Or(IF ai # 0 THEN comps[ai][p.port] ELSE Undefined, p.comp \o "_" \o p.port)

\* line 619
RECURSIVE PP_unionWires(_, _)
PP_unionWires(p, i) ==
  IF i > Len(wires) THEN p
  ELSE PP_unionWires(UF_union(p, PP_wireKey(wires[i].p1), PP_wireKey(wires[i].p2)), i + 1)

\* line 621, one terminal
PP_visit(st, c, k) ==
  LET label == PP_key(c, k)
      f == UF_find(st.uf, label)
  IN [uf |-> f.uf,
      reps |-> IF ObjHas(st.reps, f.r) THEN st.reps
               ELSE ObjSet(st.reps, f.r, IF label = "0" \/ c[k] = "0" THEN "0" ELSE Null)]

\* line 621
RECURSIVE PP_repsComps(_, _)
PP_repsComps(st, i) ==
  IF i > Len(comps) THEN st
  ELSE PP_repsComps(PP_visit(PP_visit(st, comps[i], "n1"), comps[i], "n2"), i + 1)

\* line 622
RECURSIVE PP_repsNodes(_, _)
PP_repsNodes(st, i) ==
  IF i > Len(autoNodes) THEN st
  ELSE LET f == UF_find(st.uf, autoNodes[i].id)
       IN PP_repsNodes([uf |-> f.uf,
                        reps |-> IF ObjHas(st.reps, f.r) THEN st.reps
                                 ELSE ObjSet(st.reps, f.r, Null)], i + 1)

\* line 623
RECURSIVE PP_number(_, _, _)
PP_number(reps, keys, idx) ==
  IF keys = <<>> THEN reps
  ELSE IF ObjGet(reps, Head(keys)) = Null
       THEN PP_number(ObjSet(reps, Head(keys), "N" \o ToString(idx)), Tail(keys), idx + 1)
       ELSE PP_number(reps, Tail(keys), idx)

\* lines 616-623
PP_resolve ==
  LET p == PP_unionWires(PP_regNodes(PP_regComps(EmptyObj, 1), 1), 1)
      st == PP_repsNodes(PP_repsComps([uf |-> p, reps |-> <<>>], 1), 1)
  IN [uf |-> st.uf, reps |-> PP_number(st.reps, ObjectKeys(st.reps), 1)]

\* lines 624-625: the node name of terminal `which` of component object comp
PP_nodeName(comp, which) ==
  LET res == PP_resolve
      portLabel == UF_find(res.uf, PP_key(comp, which)).r
  IN Or(ObjGet(res.reps, portLabel), "0")

\* lines 626, 633: node_voltages[nodeName] ?? node_voltages['0'] ?? 0
VoltageOf(sim, nodeName) ==
  IF nodeName \in DOMAIN sim.node_voltages THEN sim.node_voltages[nodeName]
  ELSE IF "0" \in DOMAIN sim.node_voltages THEN sim.node_voltages["0"]
  ELSE 0

\* lines 614-628: what probePort alerts (NullObj: it returns without an alert)
probePort(comp, which) ==
  IF lastSimResult = NullObj THEN NullObj
  ELSE LET nodeName == PP_nodeName(comp, which)
       IN [op |-> "probePort", comp |-> comp.name, port |-> which,
           node |-> nodeName, v |-> VoltageOf(lastSimResult, nodeName)]

\* lines 629-639: what probeWire alerts
probeWire(w) ==
  IF lastSimResult = NullObj THEN [op |-> "alert", text |-> "No simulation yet."]
  ELSE IF w.p1.isNode
       THEN [op |-> "probeWire", node |-> w.p1.nodeId,
             v |-> VoltageOf(lastSimResult, w.p1.nodeId)]
       ELSE LET a == CompsFind(w.p1.comp)
            IN IF a # 0 THEN probePort(comps[a], w.p1.port) ELSE NullObj

-----------------------------------------------------------------------------
(* computeNetMapping, lines 143-179, and the port tag of drawPort, 345-351 *)

\* lines 146-147: the closures find and union, the same text as lines 554-555
CNM_find(uf, a) == GN_find(uf, a)

CNM_union(uf, a, b) == GN_union(uf, a, b)

\* c.n1 || (c.name + '_n1'), c[k] || (c.name + '_' + k)
CNM_key(c, k) == Or(c[k], c.name \o "_" \o k)

\* line 149: comps.forEach(c => { find(...n1); find(...n2); })
RECURSIVE CNM_regComps(_, _)
CNM_regComps(uf, i) ==
  IF i > Len(comps) THEN uf
  ELSE CNM_regComps(CNM_find(CNM_find(uf, CNM_key(comps[i], "n1")).uf,
                             CNM_key(comps[i], "n2")).uf, i + 1)

\* line 150: autoNodes.forEach(n => find(n.id))
RECURSIVE CNM_regNodes(_, _)
CNM_regNodes(uf, i) ==
  IF i > Len(autoNodes) THEN uf
  ELSE CNM_regNodes(CNM_find(uf, autoNodes[i].id).uf, i + 1)

\* A faulty endpoint key, to test C32: the endpoint's own name, whatever the label
\* of the terminal
CNM_wireKeyByName(p) ==
  IF p.isNode THEN p.nodeId ELSE p.comp \o "_" \o p.port

\* lines 153-154: the identity key of a wire endpoint
CNM_wireKey(p) ==
  IF p.isNode THEN p.nodeId
  ELSE LET ai == CompsFind(p.comp)
       IN Or(IF ai # 0 THEN comps[ai][p.port] ELSE Undefined, p.comp \o "_" \o p.port)

\* lines 152-156: wires.forEach(w => union(a, b))
RECURSIVE CNM_unionWires(_, _)
CNM_unionWires(uf, i) ==
  IF i > Len(wires) THEN uf
  ELSE CNM_unionWires(CNM_union(uf, CNM_wireKey(wires[i].p1), CNM_wireKey(wires[i].p2)),
                      i + 1)

\* lines 161-165, one terminal
CNM_visit(st, c, k) ==
  LET lbl == CNM_key(c, k)
      f == CNM_find(st.uf, lbl)
  IN [uf |-> f.uf,
      reps |-> IF ObjHas(st.reps, f.r) THEN st.reps
               ELSE ObjSet(st.reps, f.r, IF lbl = "0" \/ c[k] = "0" THEN "0" ELSE Null)]

\* lines 159-167: comps.forEach(c => ['n1','n2'].forEach(k => ...))
RECURSIVE CNM_repsComps(_, _)
CNM_repsComps(st, i) ==
  IF i > Len(comps) THEN st
  ELSE CNM_repsComps(CNM_visit(CNM_visit(st, comps[i], "n1"), comps[i], "n2"), i + 1)

\* line 168: autoNodes.forEach(n => { r = find(n.id); if(!(r in reps)) reps[r] = null })
RECURSIVE CNM_repsNodes(_, _)
CNM_repsNodes(st, i) ==
  IF i > Len(autoNodes) THEN st
  ELSE LET f == CNM_find(st.uf, autoNodes[i].id)
       IN CNM_repsNodes([uf |-> f.uf,
                         reps |-> IF ObjHas(st.reps, f.r) THEN st.reps
                                  ELSE ObjSet(st.reps, f.r, Null)], i + 1)

\* line 169: Object.keys(reps).forEach(r => { if(reps[r]===null) reps[r] = 'N'+(idx++) })
RECURSIVE CNM_number(_, _, _)
CNM_number(reps, keys, idx) ==
  IF keys = <<>> THEN reps
  ELSE IF ObjGet(reps, Head(keys)) = Null
       THEN CNM_number(ObjSet(reps, Head(keys), "N" \o ToString(idx)), Tail(keys), idx + 1)
       ELSE CNM_number(reps, Tail(keys), idx)

\* lines 174-177: Object.keys(uf).forEach(k => { rep = find(k); if(rep in reps)
\* map[k] = reps[rep] }); todo is the set of keys still to visit (the map is looked
\* up by key: the order of the visit is not observed)
RECURSIVE CNM_map(_, _, _, _)
CNM_map(uf, reps, todo, map) ==
  IF todo = {} THEN map
  ELSE LET k == CHOOSE x \in todo : TRUE
           f == CNM_find(uf, k)
       IN CNM_map(f.uf, reps, todo \ {k},
                  IF ObjHas(reps, f.r)
                  THEN [x \in DOMAIN map \cup {k} |->
                          IF x = k THEN ObjGet(reps, f.r) ELSE map[x]]
                  ELSE map)

\* lines 143-179: the map from identity key to node name
computeNetMapping ==
  LET uf == CNM_unionWires(CNM_regNodes(CNM_regComps(EmptyObj, 1), 1), 1)
      st == CNM_repsNodes(CNM_repsComps([uf |-> uf, reps |-> <<>>], 1), 1)
      reps == CNM_number(st.reps, ObjectKeys(st.reps), 1)
  IN CNM_map(st.uf, reps, DOMAIN st.uf, EmptyObj)

\* lines 348-350: the text of the port tag, map[key] || comp[which] || ''
PortTag(map, comp, which) ==
  LET key == Or(comp[which], comp.name \o "_" \o which)
  IN Or(Or(IF key \in DOMAIN map THEN map[key] ELSE Undefined, comp[which]), "")

-----------------------------------------------------------------------------
(* Bounds of the model and the inputs of the user *)

\* The document holds at most MaxComps components.
MaxComps == 2

\* At most MaxWireIds wires are ever created (idCounter stays <= MaxWireIds + 1).
MaxWireIds == 2

\* An editing session is at most MaxEvents events long.
MaxEvents == 10

\* At most MaxInflight solve requests are awaiting their response.
MaxInflight == 1

\* A document drawn for the resolution passes holds at most MaxDocWires wires.
MaxDocWires == 1

\* Where the Simulate button is pressed again before the answer: at most
\* MaxRequests solve requests are awaiting their response.
MaxRequests == 2

\* The tools the user picks (line 659-670); "I", "C", "L", "D" place like "R" and "V".
ToolChoices == {"R", "V", "GND", "W", "COPY", "DEL"}

\* The component types (line 505)
Types == {"R", "V", "I", "C", "L", "D"}

\* Where the user clicks on empty canvas, in pixels from the canvas origin.
ClickXs == {4, 20}
ClickYs == {0}

\* What the user types in the panel's node fields ("" clears the label).
TypedLabels == {"", "7"}

\* What the panel's Value field (an input of type number) holds when it changes.
PanelValueTexts == {"", "0", "47"}

\* What the user answers to the prompt of a double click (Null: cancelled).
PromptAnswers == {Null, "", "abc", "4x"}

-----------------------------------------------------------------------------
(* Grid helpers, lines 20-35 *)

GRID == 20

\* Math.round(v/GRID)*GRID, for v >= 0 (halves round up)
snap(v) == ((2 * v + GRID) \div (2 * GRID)) * GRID

\* lines 22-24: the first prefix+i that no component is named
nextName(prefix) ==
  prefix \o ToString(CHOOSE i \in 1..(Len(comps) + 1) :
                       /\ CompsFind(prefix \o ToString(i)) = 0
                       /\ \A j \in 1..(i - 1) : CompsFind(prefix \o ToString(j)) # 0)

\* autoNodes.find(n => n.x === gx && n.y === gy): index of the first match, 0 if none
NodeAt(gx, gy) ==
  IF \E i \in 1..Len(autoNodes) : autoNodes[i].x = gx /\ autoNodes[i].y = gy
  THEN CHOOSE i \in 1..Len(autoNodes) :
         /\ autoNodes[i].x = gx /\ autoNodes[i].y = gy
         /\ \A j \in 1..(i - 1) : ~(autoNodes[j].x = gx /\ autoNodes[j].y = gy)
  ELSE 0

\* lines 28-35: the junctions after the call, and the id it returns
getOrCreateNodeAt(x, y) ==
  LET gx == snap(x)
      gy == snap(y)
      existing == NodeAt(gx, gy)
      newId == "N" \o ToString(Len(autoNodes) + 1)
  IN IF existing # 0
     THEN [nodes |-> autoNodes, id |-> autoNodes[existing].id]
     ELSE [nodes |-> Append(autoNodes, [id |-> newId, x |-> gx, y |-> gy]), id |-> newId]

\* parseInt((a||'').replace(/^N/i,'')) || Infinity, on the ids "N<k>" the editor
\* issues (0 stands for Infinity: no id has the number 0)
NodeNumber(a) ==
  LET ks == {k \in 1..(Cardinality(ClickXs) * Cardinality(ClickYs) + 1) :
               a = "N" \o ToString(k)}
  IN IF ks = {} THEN 0 ELSE CHOOSE k \in ks : TRUE

\* lines 38-44
pickLowerNode(a, b) ==
  IF a = "0" \/ b = "0" THEN "0"
  ELSE LET ra == NodeNumber(a)
           rb == NodeNumber(b)
       IN IF rb = 0 \/ (ra # 0 /\ ra <= rb) THEN a ELSE b

\* line 530
defaultValue(t) ==
  CASE t = "R" -> Num("1000")
    [] t = "V" -> Num("5")
    [] t = "I" -> Num("0.001")
    [] t = "C" -> Num("0.000001")
    [] t = "L" -> Num("0.001")
    [] OTHER -> Num("0")

-----------------------------------------------------------------------------
(* History of the terminals, kept beside comps (hist[i] belongs to the     *)
(* component object comps[i]).  The status of a terminal is                 *)
(*   "pristine": never an endpoint of a wire, never grounded, label never   *)
(*               typed by the user;                                         *)
(*   "wired":    has been an endpoint of a wire, never grounded nor typed;  *)
(*   "gnd":      grounded with the GND tool, and its label not typed since; *)
(*   "typed":    its label was typed by the user, and not grounded since.   *)

FreshHist == [n1 |-> "pristine", n2 |-> "pristine"]

AfterWire(status) == IF status = "pristine" THEN "wired" ELSE status

\* The terminal `port` of every component object named name becomes a wire endpoint.
MarkWired(h, cs, name, port) ==
  [i \in 1..Len(h) |->
     IF cs[i].name = name THEN [h[i] EXCEPT ![port] = AfterWire(h[i][port])] ELSE h[i]]

-----------------------------------------------------------------------------
(* Initial state, lines 11-17 *)

Init ==
  /\ comps = <<>>
  /\ wires = <<>>
  /\ autoNodes = <<>>
  /\ mode = Null
  /\ placing = NullObj
  /\ activePort = NullObj
  /\ selected = NullObj
  /\ lastSimResult = NullObj
  /\ idCounter = 1
  /\ panel = NullObj
  /\ inflight = <<>>
  /\ out = NullObj
  /\ hist = <<>>
  /\ events = 0
  /\ UFIdle
  /\ simLog = NoLog

-----------------------------------------------------------------------------
(* Selection, lines 425-434; the panel holds the component object it was   *)
(* built for (idx: its place in comps; 0 and a copy of the object once it   *)
(* has left comps) or the id of the wire.                                   *)

PanelComp(i) == [kind |-> "comp", idx |-> i, obj |-> NullObj]
PanelWire(id) == [kind |-> "wire", id |-> id]

\* The component object of the panel
PanelObj == IF panel.idx > 0 THEN comps[panel.idx] ELSE panel.obj

\* The panel once deleteComponent has filtered the objects named name out of comps
PanelAfterDelete(name) ==
  IF panel.kind = "comp" /\ panel.idx > 0
  THEN IF comps[panel.idx].name # name
       THEN PanelComp(Cardinality({j \in 1..panel.idx : comps[j].name # name}))
       ELSE [kind |-> "comp", idx |-> 0,
             obj |-> [comps[panel.idx] EXCEPT !.n1 = Undefined, !.n2 = Undefined]]
  ELSE panel

\* The panel once Clear has emptied comps
PanelAfterClear ==
  IF panel.kind = "comp" /\ panel.idx > 0
  THEN [kind |-> "comp", idx |-> 0,
        obj |-> [comps[panel.idx] EXCEPT !.n1 = Undefined, !.n2 = Undefined]]
  ELSE panel

\* lines 425-429
selectComponent(i) ==
  /\ selected' = [type |-> "comp", ref |-> comps[i].name]
  /\ panel' = PanelComp(i)

\* lines 430-434
selectWire(w) ==
  /\ selected' = [type |-> "wire", ref |-> w.id]
  /\ panel' = PanelWire(w.id)

-----------------------------------------------------------------------------
(* Rotate / Copy / Delete, lines 496-499 *)

\* line 497: copyComponent(c) for a component object c
copyComponent(c) ==
  /\ Len(comps) < MaxComps
  /\ comps' = Append(comps, [c EXCEPT !.name = nextName(c.type),
                                      !.n1 = Undefined, !.n2 = Undefined])
  /\ hist' = Append(hist, FreshHist)
  /\ out' = NullObj
  /\ UNCHANGED <<wires, autoNodes, mode, placing, activePort, selected, lastSimResult,
                 idCounter, panel, inflight>>

\* line 498: deleteComponent(c) for a component object c
deleteComponent(c) ==
  LET keepI == {i \in 1..Len(comps) : comps[i].name # c.name}
      KeepC(cc) == cc.name # c.name
      KeepW(w) == w.p1.comp # c.name /\ w.p2.comp # c.name
      nth(k) == CHOOSE i \in keepI : Cardinality({j \in keepI : j <= i}) = k
  IN /\ wires' = SelectSeq(wires, KeepW)
     /\ comps' = SelectSeq(comps, KeepC)
     /\ hist' = [k \in 1..Cardinality(keepI) |-> hist[nth(k)]]
     /\ selected' = NullObj
     /\ panel' = PanelAfterDelete(c.name)
     /\ out' = NullObj
     /\ UNCHANGED <<autoNodes, mode, placing, activePort, lastSimResult, idCounter,
                    inflight>>

\* line 499
deleteSelected ==
  /\ selected # NullObj
  /\ IF selected.type = "comp"
     THEN /\ CompsFind(selected.ref) # 0
          /\ deleteComponent(comps[CompsFind(selected.ref)])
     ELSE /\ selected.type = "wire"
          /\ wires' = SelectSeq(wires, LAMBDA w : w.id # selected.ref)
          /\ selected' = NullObj
          /\ out' = NullObj
          /\ UNCHANGED <<comps, autoNodes, mode, placing, activePort, lastSimResult,
                         idCounter, panel, inflight, hist>>

-----------------------------------------------------------------------------
(* Wire handling, lines 355-422 *)

PortEndpoint(name, which) ==
  [comp |-> name, port |-> which, nodeId |-> Undefined, isNode |-> FALSE]
NodeEndpoint(id) ==
  [comp |-> Null, port |-> Null, nodeId |-> id, isNode |-> TRUE]

\* comp[which] = v on the component object at index i
SetLabel(cs, i, which, v) == [cs EXCEPT ![i][which] = v]

\* lines 355-392: a click, in mode 'W', on terminal `which` of the object comps[i]
handleWirePortClick(i, which) ==
  LET comp == comps[i] IN
  IF activePort = NullObj
  THEN /\ activePort' = PortEndpoint(comp.name, which)
       /\ out' = NullObj
       /\ UNCHANGED <<comps, wires, autoNodes, mode, placing, selected, lastSimResult,
                      idCounter, panel, inflight, hist>>
  ELSE IF activePort.isNode
  THEN /\ idCounter <= MaxWireIds
       /\ comps' = SetLabel(comps, i, which, activePort.nodeId)
       /\ wires' = Append(wires, [id |-> "W" \o ToString(idCounter),
                                  p1 |-> NodeEndpoint(activePort.nodeId),
                                  p2 |-> PortEndpoint(comp.name, which)])
       /\ idCounter' = idCounter + 1
       /\ activePort' = NullObj
       /\ hist' = [hist EXCEPT ![i][which] = AfterWire(hist[i][which])]
       /\ out' = NullObj
       /\ UNCHANGED <<autoNodes, mode, placing, selected, lastSimResult, panel, inflight>>
  ELSE IF activePort.comp = comp.name /\ activePort.port = which
  THEN /\ activePort' = NullObj
       /\ out' = NullObj
       /\ UNCHANGED <<comps, wires, autoNodes, mode, placing, selected, lastSimResult,
                      idCounter, panel, inflight, hist>>
  ELSE LET a == activePort
           ia == CompsFind(a.comp)
           ib == CompsFind(comp.name)
           nameA == Or(comps[ia][a.port], comps[ia].name \o "_" \o a.port)
       IN /\ idCounter <= MaxWireIds
          /\ wires' = Append(wires, [id |-> "W" \o ToString(idCounter),
                                     p1 |-> PortEndpoint(a.comp, a.port),
                                     p2 |-> PortEndpoint(comp.name, which)])
          /\ idCounter' = idCounter + 1
          /\ IF ia = 0
             THEN \* compA is undefined: compA[a.port] throws, the handler stops here
                  /\ out' = [op |-> "exception", in |-> "handleWirePortClick"]
                  /\ hist' = MarkWired(hist, comps, comp.name, which)
                  /\ UNCHANGED <<comps, activePort>>
             ELSE /\ comps' = SetLabel(SetLabel(comps, ia, a.port, nameA), ib, which, nameA)
                  /\ activePort' = NullObj
                  /\ hist' = MarkWired(MarkWired(hist, comps, a.comp, a.port),
                                     comps, comp.name, which)
                  /\ out' = NullObj
          /\ UNCHANGED <<autoNodes, mode, placing, selected, lastSimResult, panel,
                         inflight>>

\* lines 394-422: a click, in mode 'W', on the junction node; nodes is autoNodes
\* as getOrCreateNodeAt left it
handleWireNodeClick(nodes, node) ==
  IF activePort = NullObj
  THEN /\ activePort' = NodeEndpoint(node.id)
       /\ autoNodes' = nodes
       /\ out' = NullObj
       /\ UNCHANGED <<comps, wires, mode, placing, selected, lastSimResult, idCounter,
                      panel, inflight, hist>>
  ELSE LET a == activePort
           merge == a.isNode
           keep == pickLowerNode(a.nodeId, node.id)
           drop == IF keep = a.nodeId THEN node.id ELSE a.nodeId
           ren(id) == IF merge /\ id = drop THEN keep ELSE id
           renEp(ep) == IF ep.isNode THEN [ep EXCEPT !.nodeId = ren(ep.nodeId)] ELSE ep
           w == [id |-> "W" \o ToString(idCounter),
                 p1 |-> [comp |-> a.comp, port |-> a.port, nodeId |-> a.nodeId,
                         isNode |-> a.isNode],
                 p2 |-> NodeEndpoint(node.id)]
           ws == Append(wires, w)
           \* lines 405-415: merge node-to-node
           cs1 == [i \in 1..Len(comps) |->
                     [comps[i] EXCEPT !.n1 = ren(comps[i].n1), !.n2 = ren(comps[i].n2)]]
           ia == IF Truthy(a.comp) THEN CompsFind(a.comp) ELSE 0
       IN /\ idCounter <= MaxWireIds
          /\ idCounter' = idCounter + 1
          /\ wires' = [j \in 1..Len(ws) |->
                         [ws[j] EXCEPT !.p1 = renEp(ws[j].p1), !.p2 = renEp(ws[j].p2)]]
          /\ autoNodes' = IF merge THEN SelectSeq(nodes, LAMBDA n : n.id # drop) ELSE nodes
          \* lines 416-419
          /\ comps' = IF ia # 0 THEN SetLabel(cs1, ia, a.port, node.id) ELSE cs1
          /\ hist' = IF Truthy(a.comp) THEN MarkWired(hist, comps, a.comp, a.port) ELSE hist
          /\ activePort' = NullObj
          /\ out' = NullObj
          /\ UNCHANGED <<mode, placing, selected, lastSimResult, panel, inflight>>

-----------------------------------------------------------------------------
(* The solver, an external service (lines 601-604): it answers a payload   *)
(* with a voltage for every node name of the payload and for "0" (the      *)
(* n-th name in order of appearance gets n volts, "0" gets 0), or with no  *)
(* node_voltages at all.                                                   *)

RECURSIVE PayloadNodes(_, _)
PayloadNodes(recs, seen) ==
  IF recs = <<>> THEN seen
  ELSE LET s1 == IF \E j \in 1..Len(seen) : seen[j] = Head(recs).n1 THEN seen
                 ELSE Append(seen, Head(recs).n1)
           s2 == IF \E j \in 1..Len(s1) : s1[j] = Head(recs).n2 THEN s1
                 ELSE Append(s1, Head(recs).n2)
       IN PayloadNodes(Tail(recs), s2)

SolverVoltages(payload) ==
  LET names == PayloadNodes(payload.components, <<>>)
  IN [nm \in {names[j] : j \in 1..Len(names)} \cup {"0"} |->
        IF nm = "0" THEN 0 ELSE CHOOSE j \in 1..Len(names) : names[j] = nm]

SolverAnswers(payload) ==
  {[node_voltages |-> SolverVoltages(payload)], [node_voltages |-> EmptyObj]}

\* A solver that does not pin the voltage of node "0": besides the answers above,
\* an answer whose only entry is a voltage of 3 for "0".
SolverAnswersFloating(payload) ==
  SolverAnswers(payload) \cup {[node_voltages |-> ("0" :> 3)]}

-----------------------------------------------------------------------------
(* The events *)

\* lines 659-670: a tool button
ToolButton(m) ==
  /\ mode' = m
  /\ placing' = NullObj
  /\ activePort' = IF m = "W" THEN NullObj ELSE activePort
  /\ out' = NullObj
  /\ UNCHANGED <<comps, wires, autoNodes, selected, lastSimResult, idCounter, panel,
                 inflight, hist>>

\* lines 507, 526: the second step of a placement
CommitPlacement ==
  /\ Len(comps) < MaxComps
  /\ comps' = Append(comps, [placing EXCEPT !.n1 = placing.name \o "_n1",
                                            !.n2 = placing.name \o "_n2"])
  /\ hist' = Append(hist, FreshHist)
  /\ placing' = NullObj
  /\ out' = NullObj
  /\ UNCHANGED <<wires, autoNodes, mode, activePort, selected, lastSimResult, idCounter,
                 panel, inflight>>

\* lines 502-509: pointerdown on the canvas
SvgPointerDown ==
  /\ mode \in Types
  /\ IF placing = NullObj
     THEN /\ placing' = [type |-> mode, name |-> nextName(mode), n1 |-> Undefined,
                         n2 |-> Undefined, value |-> defaultValue(mode)]
          /\ out' = NullObj
          /\ UNCHANGED <<comps, wires, autoNodes, mode, activePort, selected,
                         lastSimResult, idCounter, panel, inflight, hist>>
     ELSE CommitPlacement

\* lines 510-521: click on the canvas, at (x, y)
SvgClick(x, y) ==
  IF mode = "W"
  THEN LET got == getOrCreateNodeAt(x, y)
           ni == CHOOSE i \in 1..Len(got.nodes) :
                   /\ got.nodes[i].id = got.id
                   /\ \A j \in 1..(i - 1) : got.nodes[j].id # got.id
       IN handleWireNodeClick(got.nodes, got.nodes[ni])
  ELSE IF Truthy(mode) /\ mode # "MOVE" /\ placing # NullObj
  THEN CommitPlacement
  ELSE /\ selected' = NullObj
       /\ panel' = NullObj
       /\ out' = NullObj
       /\ UNCHANGED <<comps, wires, autoNodes, mode, placing, activePort, lastSimResult,
                      idCounter, inflight, hist>>

\* lines 337-343: click on terminal `which` of the component object comps[i]
\* A faulty click, to test C34: the GND tool grounding both terminals of the
\* component
PortClickGroundsBoth(i, which) ==
  IF mode = "W" THEN handleWirePortClick(i, which)
  ELSE IF mode = "GND"
  THEN /\ comps' = SetLabel(SetLabel(comps, i, "n1", "0"), i, "n2", "0")
       /\ mode' = Null
       /\ hist' = [hist EXCEPT ![i][which] = "gnd"]
       /\ out' = NullObj
       /\ UNCHANGED <<wires, autoNodes, placing, activePort, selected, lastSimResult,
                      idCounter, panel, inflight>>
  ELSE IF lastSimResult # NullObj
  THEN /\ out' = probePort(comps[i], which)
       /\ UNCHANGED <<comps, wires, autoNodes, mode, placing, activePort, selected,
                      lastSimResult, idCounter, panel, inflight, hist>>
  ELSE /\ selectComponent(i)
       /\ out' = NullObj
       /\ UNCHANGED <<comps, wires, autoNodes, mode, placing, activePort, lastSimResult,
                      idCounter, inflight, hist>>

PortClick(i, which) ==
  IF mode = "W" THEN handleWirePortClick(i, which)
  ELSE IF mode = "GND"
  THEN /\ comps' = SetLabel(comps, i, which, "0")
       /\ mode' = Null
       /\ hist' = [hist EXCEPT ![i][which] = "gnd"]
       /\ out' = NullObj
       /\ UNCHANGED <<wires, autoNodes, placing, activePort, selected, lastSimResult,
                      idCounter, panel, inflight>>
  ELSE IF lastSimResult # NullObj
  THEN /\ out' = probePort(comps[i], which)
       /\ UNCHANGED <<comps, wires, autoNodes, mode, placing, activePort, selected,
                      lastSimResult, idCounter, panel, inflight, hist>>
  ELSE /\ selectComponent(i)
       /\ out' = NullObj
       /\ UNCHANGED <<comps, wires, autoNodes, mode, placing, activePort, lastSimResult,
                      idCounter, inflight, hist>>

\* lines 86-93: click on the dot of the junction autoNodes[j]
AutoNodeClick(j) ==
  IF mode = "W" THEN handleWireNodeClick(autoNodes, autoNodes[j])
  ELSE /\ lastSimResult # NullObj
       /\ out' = [op |-> "probeNode", node |-> autoNodes[j].id,
                  v |-> VoltageOf(lastSimResult, autoNodes[j].id)]
       /\ UNCHANGED <<comps, wires, autoNodes, mode, placing, activePort, selected,
                      lastSimResult, idCounter, panel, inflight, hist>>

\* lines 218-225: pointerdown on the body of the component object comps[i]
\* (MOVE, no tool and ROTATE only change the drawing)
CompPointerDown(i) ==
  /\ mode \notin {Null, "MOVE", "ROTATE"}
  /\ IF mode = "DEL" THEN deleteComponent(comps[i])
     ELSE IF mode = "COPY" THEN copyComponent(comps[i])
     ELSE /\ selectComponent(i)
          /\ out' = NullObj
          /\ UNCHANGED <<comps, wires, autoNodes, mode, placing, activePort,
                         lastSimResult, idCounter, inflight, hist>>

\* lines 243-246: the Copy and Delete items of the context menu of comps[i]
ContextMenu(i, item) ==
  IF item = "Copy" THEN copyComponent(comps[i]) ELSE deleteComponent(comps[i])

\* lines 71, 77: click on the wire w: selectWire(w); probeWire(w)
WireClick(w) ==
  /\ selectWire(w)
  /\ out' = probeWire(w)
  /\ UNCHANGED <<comps, wires, autoNodes, mode, placing, activePort, lastSimResult,
                 idCounter, inflight, hist>>

\* line 538: click on a component of the list
ListCompClick(i) ==
  /\ selectComponent(i)
  /\ out' = NullObj
  /\ UNCHANGED <<comps, wires, autoNodes, mode, placing, activePort, lastSimResult,
                 idCounter, inflight, hist>>

\* line 545: click on a wire of the list
ListWireClick(w) ==
  /\ selectWire(w)
  /\ out' = NullObj
  /\ UNCHANGED <<comps, wires, autoNodes, mode, placing, activePort, lastSimResult,
                 idCounter, inflight, hist>>

\* line 440: the panel's 'Delete wire'
PanelDeleteWire ==
  /\ panel.kind = "wire"
  /\ wires' = SelectSeq(wires, LAMBDA ww : ww.id # panel.id)
  /\ selected' = NullObj
  /\ out' = NullObj
  /\ UNCHANGED <<comps, autoNodes, mode, placing, activePort, lastSimResult, idCounter,
                 panel, inflight, hist>>

\* lines 453, 456: the panel's 'Node n1' / 'Node n2' field changed to the text v
\* (on an object that has left comps the edit shows nowhere)
PanelSetNode(which, v) ==
  /\ panel.kind = "comp"
  /\ panel.idx > 0
  /\ comps' = SetLabel(comps, panel.idx, which, IF v = "" THEN Undefined ELSE v)
  /\ hist' = [hist EXCEPT ![panel.idx][which] = "typed"]
  /\ out' = NullObj
  /\ UNCHANGED <<wires, autoNodes, mode, placing, activePort, selected, lastSimResult,
                 idCounter, panel, inflight>>

\* line 450: the panel's 'Value' field changed to the text t
PanelSetValue(t) ==
  /\ panel.kind = "comp"
  /\ panel.idx > 0
  /\ comps' = [comps EXCEPT ![panel.idx].value =
                 IF parseFloat(t) = "NaN" THEN UndefValue ELSE Num(parseFloat(t))]
  /\ out' = NullObj
  /\ UNCHANGED <<wires, autoNodes, mode, placing, activePort, selected, lastSimResult,
                 idCounter, panel, inflight, hist>>

\* lines 228-236: double click on the component object comps[i], the prompt
\* answered newVal
DblClickValue(i, newVal) ==
  /\ comps' = IF newVal # Null
              THEN [comps EXCEPT ![i].value =
                      IF parseFloat(newVal) = "NaN" THEN Str(newVal)
                      ELSE Num(parseFloat(newVal))]
              ELSE comps
  /\ out' = [op |-> "prompt", text |-> "Enter new value for " \o comps[i].name]
  /\ UNCHANGED <<wires, autoNodes, mode, placing, activePort, selected, lastSimResult,
                 idCounter, panel, inflight, hist>>

\* line 462: the panel's 'Copy'
PanelCopy ==
  /\ panel.kind = "comp"
  /\ copyComponent(PanelObj)

\* line 465: the panel's 'Delete'
PanelDelete ==
  /\ panel.kind = "comp"
  /\ deleteComponent(PanelObj)

\* line 676: the Delete or Backspace key
KeyDelete == deleteSelected

\* A faulty Escape, to test C25: the gesture and the placement cancelled, the tool
\* kept
KeyEscapeKeepsTool ==
  /\ activePort' = NullObj
  /\ placing' = NullObj
  /\ out' = NullObj
  /\ UNCHANGED <<comps, wires, autoNodes, mode, selected, lastSimResult, idCounter,
                 panel, inflight, hist>>

\* line 676: the Escape key
KeyEscape ==
  /\ activePort' = NullObj
  /\ placing' = NullObj
  /\ mode' = Null
  /\ out' = NullObj
  /\ UNCHANGED <<comps, wires, autoNodes, selected, lastSimResult, idCounter, panel,
                 inflight, hist>>

\* line 676: the space bar
KeySpace ==
  /\ mode' = IF mode = "W" THEN Null ELSE "W"
  /\ activePort' = NullObj
  /\ out' = NullObj
  /\ UNCHANGED <<comps, wires, autoNodes, placing, selected, lastSimResult, idCounter,
                 panel, inflight, hist>>

\* line 671: the Clear button
ClearButton ==
  /\ comps' = <<>>
  /\ wires' = <<>>
  /\ autoNodes' = <<>>
  /\ placing' = NullObj
  /\ activePort' = NullObj
  /\ selected' = NullObj
  /\ lastSimResult' = NullObj
  /\ out' = [op |-> "results", text |-> ""]
  /\ hist' = <<>>
  /\ panel' = PanelAfterClear
  /\ UNCHANGED <<mode, idCounter, inflight>>

\* A faulty redraw, to test C31: the overlay writing the node names it shows into
\* the labels of the terminals
RedrawStoringNames ==
  LET map == computeNetMapping
  IN /\ out' = [op |-> "redraw",
                tags |-> [i \in 1..Len(comps) |->
                            [n1 |-> PortTag(map, comps[i], "n1"),
                             n2 |-> PortTag(map, comps[i], "n2")]]]
     /\ comps' = [i \in 1..Len(comps) |->
                    [comps[i] EXCEPT !.n1 = PortTag(map, comps[i], "n1"),
                                     !.n2 = PortTag(map, comps[i], "n2")]]
     /\ UNCHANGED <<wires, autoNodes, mode, placing, activePort, selected,
                    lastSimResult, idCounter, panel, inflight, hist>>

\* lines 61, 103, 214-215, 345-351: redraw, as far as the port tags (a redraw with
\* no edit: line 496, rotateComponent)
Redraw ==
  LET map == computeNetMapping
  IN /\ out' = [op |-> "redraw",
                tags |-> [i \in 1..Len(comps) |->
                            [n1 |-> PortTag(map, comps[i], "n1"),
                             n2 |-> PortTag(map, comps[i], "n2")]]]
     /\ UNCHANGED <<comps, wires, autoNodes, mode, placing, activePort, selected,
                    lastSimResult, idCounter, panel, inflight, hist>>

\* line 673: the Netlist button
NetlistButton ==
  /\ out' = [op |-> "netlist", lines |-> generateNetlist]
  /\ UNCHANGED <<comps, wires, autoNodes, mode, placing, activePort, selected,
                 lastSimResult, idCounter, panel, inflight, hist>>

\* lines 672, 585-601: the Simulate button, up to the request being sent, as long
\* as fewer than cap requests are awaiting their response
SimButtonUpTo(cap) ==
  /\ Len(inflight) < cap
  /\ inflight' = Append(inflight, RS_payload)
  /\ out' = NullObj
  /\ UNCHANGED <<comps, wires, autoNodes, mode, placing, activePort, selected,
                 lastSimResult, idCounter, panel, hist>>

SimButton == SimButtonUpTo(MaxInflight)

\* A faulty response, to test C20: the result kept only when the request was built
\* from the document as it is now
SimResponseIfCurrent(r, data) ==
  /\ inflight' = [j \in 1..(Len(inflight) - 1) |->
                    IF j < r THEN inflight[j] ELSE inflight[j + 1]]
  /\ lastSimResult' = IF inflight[r] = RS_payload
                      THEN [node_voltages |-> data.node_voltages] ELSE lastSimResult
  /\ out' = [op |-> "results", data |-> data]
  /\ UNCHANGED <<comps, wires, autoNodes, mode, placing, activePort, selected, idCounter,
                 panel, hist>>

\* lines 602-606: the response to the request inflight[r] arrives and is ok
SimResponse(r, data) ==
  /\ inflight' = [j \in 1..(Len(inflight) - 1) |->
                    IF j < r THEN inflight[j] ELSE inflight[j + 1]]
  /\ lastSimResult' = [node_voltages |-> data.node_voltages]
  /\ out' = [op |-> "results", data |-> data]
  /\ UNCHANGED <<comps, wires, autoNodes, mode, placing, activePort, selected, idCounter,
                 panel, hist>>

\* A faulty failure, to test C22: the request sent again, built from the document
\* as it is now
SimFailureRetry(r) ==
  /\ inflight' = Append([j \in 1..(Len(inflight) - 1) |->
                           IF j < r THEN inflight[j] ELSE inflight[j + 1]], RS_payload)
  /\ out' = [op |-> "results", text |-> "Simulation error"]
  /\ UNCHANGED <<comps, wires, autoNodes, mode, placing, activePort, selected,
                 lastSimResult, idCounter, panel, hist>>

\* lines 602, 607: the request inflight[r] fails
SimFailure(r) ==
  /\ inflight' = [j \in 1..(Len(inflight) - 1) |->
                    IF j < r THEN inflight[j] ELSE inflight[j + 1]]
  /\ out' = [op |-> "results", text |-> "Simulation error"]
  /\ UNCHANGED <<comps, wires, autoNodes, mode, placing, activePort, selected,
                 lastSimResult, idCounter, panel, hist>>

-----------------------------------------------------------------------------
(* The editor: the events that edit the topology of the document, in any   *)
(* order.  The solver is not called here (lastSimResult stays null and the *)
(* probes show nothing) and the values are not edited: SpecSim and SpecVal *)
(* below have these events.                                                *)

\* One more event of the session.
Tick == events < MaxEvents /\ events' = events + 1 /\ UNCHANGED ufVars

Counted == Tick /\ UNCHANGED simLog

\* The events the user raises on the canvas, the lists, the panel's node fields and
\* buttons, the keyboard and the toolbar.
Next ==
  \/ Counted /\ \E m \in ToolChoices : ToolButton(m)
  \/ Counted /\ SvgPointerDown
  \/ Counted /\ \E x \in ClickXs, y \in ClickYs : SvgClick(x, y)
  \/ Counted /\ \E i \in 1..Len(comps), k \in {"n1", "n2"} : PortClick(i, k)
  \/ Counted /\ \E j \in 1..Len(autoNodes) : AutoNodeClick(j)
  \/ Counted /\ \E i \in 1..Len(comps) : CompPointerDown(i)
  \/ Counted /\ \E i \in 1..Len(comps), item \in {"Copy", "Delete"} : ContextMenu(i, item)
  \/ Counted /\ \E j \in 1..Len(wires) : WireClick(wires[j])
  \/ Counted /\ \E i \in 1..Len(comps) : ListCompClick(i)
  \/ Counted /\ \E j \in 1..Len(wires) : ListWireClick(wires[j])
  \/ Counted /\ PanelDeleteWire
  \/ Counted /\ \E k \in {"n1", "n2"}, v \in TypedLabels : PanelSetNode(k, v)
  \/ Counted /\ PanelCopy
  \/ Counted /\ PanelDelete
  \/ Counted /\ KeyDelete
  \/ Counted /\ KeyEscape
  \/ Counted /\ KeySpace
  \/ Counted /\ ClearButton
  \/ Counted /\ NetlistButton

Spec == Init /\ [][Next]_vars

-----------------------------------------------------------------------------
(* The resolution passes on a document.  A document is any list of         *)
(* components with any terminal labels (a label is whatever the user types *)
(* in the panel, line 453-456), any junctions and any wires between their  *)
(* terminals and junctions; the events are the ones that read it: Netlist, *)
(* Simulate and its response, and the probes.                              *)

\* The types of the components of a document, in declaration order.
DocTypes == <<"R", "V">>

\* The labels of the terminals of a document.
DocLabels == {Undefined, "0", "7"}

DocComp(i) ==
  {[type |-> DocTypes[i], name |-> DocTypes[i] \o "1", n1 |-> a, n2 |-> b,
    value |-> defaultValue(DocTypes[i])] : a \in DocLabels, b \in DocLabels}

DocCompLists ==
  {<<c>> : c \in DocComp(1)} \cup {<<c, d>> : c \in DocComp(1), d \in DocComp(2)}

DocNodeLists == {<<>>, <<[id |-> "N1", x |-> 0, y |-> 0]>>}

DocEndpoints(cs, ns) ==
  {PortEndpoint(cs[i].name, k) : i \in 1..Len(cs), k \in {"n1", "n2"}}
    \cup {NodeEndpoint(ns[j].id) : j \in 1..Len(ns)}

DocWireLists(cs, ns) ==
  LET ends == {e \in DocEndpoints(cs, ns) \X DocEndpoints(cs, ns) : e[1] # e[2]}
      lists == UNION {[1..n -> ends] : n \in 0..MaxDocWires}
  IN {[j \in 1..Len(l) |-> [id |-> "W" \o ToString(j), p1 |-> l[j][1], p2 |-> l[j][2]]] :
        l \in lists}

DocInit ==
  /\ comps \in DocCompLists
  /\ autoNodes \in DocNodeLists
  /\ wires \in DocWireLists(comps, autoNodes)
  /\ mode = Null
  /\ placing = NullObj
  /\ activePort = NullObj
  /\ selected = NullObj
  /\ lastSimResult = NullObj
  /\ idCounter = Len(wires) + 1
  /\ panel = NullObj
  /\ inflight = <<>>
  /\ out = NullObj
  /\ hist = [i \in 1..Len(comps) |-> [n1 |-> "typed", n2 |-> "typed"]]
  /\ events = 0
  /\ UFIdle
  /\ simLog = NoLog

\* The document is complete: the session counts no further editing event.
NoEdit == UNCHANGED <<events, ufVars, simLog>>

DocNext ==
  \/ NoEdit /\ NetlistButton
  \/ NoEdit /\ SimButton
  \/ NoEdit /\ \E r \in 1..Len(inflight) :
                            \E data \in SolverAnswers(inflight[r]) : SimResponse(r, data)
  \/ NoEdit /\ \E r \in 1..Len(inflight) : SimFailure(r)
  \/ NoEdit /\ lastSimResult # NullObj
                       /\ \E i \in 1..Len(comps), k \in {"n1", "n2"} : PortClick(i, k)
  \/ NoEdit /\ \E j \in 1..Len(wires) : WireClick(wires[j])
  \/ NoEdit /\ \E j \in 1..Len(autoNodes) : AutoNodeClick(j)

SpecDoc == DocInit /\ [][DocNext]_vars

\* The same documents and events, and the redraws of the canvas.
ReadNext ==
  \/ NoEdit /\ NetlistButton
  \/ NoEdit /\ Redraw
  \/ NoEdit /\ SimButton
  \/ NoEdit /\ \E r \in 1..Len(inflight) :
                            \E data \in SolverAnswers(inflight[r]) : SimResponse(r, data)
  \/ NoEdit /\ lastSimResult # NullObj
                       /\ \E i \in 1..Len(comps), k \in {"n1", "n2"} : PortClick(i, k)
  \/ NoEdit /\ \E j \in 1..Len(wires) : WireClick(wires[j])

SpecRead == DocInit /\ [][ReadNext]_vars

-----------------------------------------------------------------------------
(* The values of the components.  The document holds one component of any   *)
(* type, or a resistor and a component of any type, as a placement leaves   *)
(* them (lines 505-507); the user edits their values in the panel and by    *)
(* double click, and exports or simulates.                                  *)

ValPlaced(t, nm) ==
  [type |-> t, name |-> nm, n1 |-> nm \o "_n1", n2 |-> nm \o "_n2",
   value |-> defaultValue(t)]

ValCompLists ==
  {<<ValPlaced(t, t \o "1")>> : t \in Types}
    \cup {<<ValPlaced("R", "R1"), ValPlaced(u, u \o (IF u = "R" THEN "2" ELSE "1"))>> :
            u \in Types}

ValInit ==
  /\ comps \in ValCompLists
  /\ autoNodes = <<>>
  /\ wires = <<>>
  /\ mode = Null
  /\ placing = NullObj
  /\ activePort = NullObj
  /\ selected = NullObj
  /\ lastSimResult = NullObj
  /\ idCounter = 1
  /\ panel = NullObj
  /\ inflight = <<>>
  /\ out = NullObj
  /\ hist = [i \in 1..Len(comps) |-> FreshHist]
  /\ events = 0
  /\ UFIdle
  /\ simLog = NoLog

ValNext ==
  \/ NoEdit /\ \E i \in 1..Len(comps) : ListCompClick(i)
  \/ NoEdit /\ \E t \in PanelValueTexts : PanelSetValue(t)
  \/ NoEdit /\ \E i \in 1..Len(comps), a \in PromptAnswers : DblClickValue(i, a)
  \/ NoEdit /\ NetlistButton
  \/ NoEdit /\ SimButton
  \/ NoEdit /\ \E r \in 1..Len(inflight) : SimFailure(r)

SpecVal == ValInit /\ [][ValNext]_vars

-----------------------------------------------------------------------------
(* The three-component loop: V1 (5), R1 (1000), R2 (1000) declared in that  *)
(* order, V1.n1 labelled '0' and no other label, and the three wires        *)
(* V1.n2-R1.n1, R1.n2-R2.n1, R2.n2-V1.n1, drawn in any order and each in    *)
(* either direction.                                                        *)

LoopComps ==
  <<[type |-> "V", name |-> "V1", n1 |-> "0", n2 |-> Undefined, value |-> Num("5")],
    [type |-> "R", name |-> "R1", n1 |-> Undefined, n2 |-> Undefined,
     value |-> Num("1000")],
    [type |-> "R", name |-> "R2", n1 |-> Undefined, n2 |-> Undefined,
     value |-> Num("1000")]>>

\* The three connections, as pairs of endpoints
LoopPairs ==
  <<<<PortEndpoint("V1", "n2"), PortEndpoint("R1", "n1")>>,
    <<PortEndpoint("R1", "n2"), PortEndpoint("R2", "n1")>>,
    <<PortEndpoint("R2", "n2"), PortEndpoint("V1", "n1")>>>>

LoopWireLists ==
  {[j \in 1..3 |-> [id |-> "W" \o ToString(j),
                    p1 |-> LoopPairs[ord[j]][IF flip[j] THEN 2 ELSE 1],
                    p2 |-> LoopPairs[ord[j]][IF flip[j] THEN 1 ELSE 2]]] :
     ord \in {f \in [1..3 -> 1..3] : \A a, b \in 1..3 : a # b => f[a] # f[b]},
     flip \in [1..3 -> BOOLEAN]}

LoopInit ==
  /\ comps = LoopComps
  /\ autoNodes = <<>>
  /\ wires \in LoopWireLists
  /\ mode = Null
  /\ placing = NullObj
  /\ activePort = NullObj
  /\ selected = NullObj
  /\ lastSimResult = NullObj
  /\ idCounter = Len(wires) + 1
  /\ panel = NullObj
  /\ inflight = <<>>
  /\ out = NullObj
  /\ hist = [i \in 1..Len(comps) |-> [n1 |-> "typed", n2 |-> "typed"]]
  /\ events = 0
  /\ UFIdle
  /\ simLog = NoLog

\* The events that read the document
LoopNext ==
  \/ NoEdit /\ NetlistButton
  \/ NoEdit /\ SimButton
  \/ NoEdit /\ \E r \in 1..Len(inflight) :
                            \E data \in SolverAnswers(inflight[r]) : SimResponse(r, data)
  \/ NoEdit /\ \E r \in 1..Len(inflight) : SimFailure(r)
  \/ NoEdit /\ lastSimResult # NullObj
                       /\ \E i \in 1..Len(comps), k \in {"n1", "n2"} : PortClick(i, k)

SpecLoop == LoopInit /\ [][LoopNext]_vars

-----------------------------------------------------------------------------
(* Probing the loop: the loop document, simulated by a solver that answers  *)
(* with any node_voltages, and probed at its terminals and wires.           *)

ProbeNext ==
  \/ NoEdit /\ SimButton
  \/ NoEdit /\ \E r \in 1..Len(inflight) :
                            \E data \in SolverAnswersFloating(inflight[r]) :
                              SimResponse(r, data)
  \/ NoEdit /\ lastSimResult # NullObj
                       /\ \E i \in 1..Len(comps), k \in {"n1", "n2"} : PortClick(i, k)
  \/ NoEdit /\ \E j \in 1..Len(wires) : WireClick(wires[j])

SpecProbe == LoopInit /\ [][ProbeNext]_vars

-----------------------------------------------------------------------------
(* Simulating while editing: from a document of one resistor just placed,   *)
(* the user goes on editing (tools, placements, clicks on terminals and     *)
(* components, Clear, Escape) and presses Simulate at any time; the answers *)
(* arrive at any time, in any order.                                        *)

\* The history of the requests, kept along inflight (same indices): late[r] says
\* that a request sent after inflight[r] has been answered with success already.
\* A request is sent: nothing sent later has been answered.
LogRequest == simLog' = [simLog EXCEPT !.late = Append(@, FALSE)]

\* The request at index r leaves inflight
LogRemove(late, r) ==
  [j \in 1..(Len(late) - 1) |-> IF j < r THEN late[j] ELSE late[j + 1]]

\* inflight[r] is answered with success: the requests sent before it are overtaken,
\* and its answer is the answer to the latest request answered, unless it was
\* overtaken itself
LogAnswer(r, data) ==
  simLog' = [late |-> LogRemove([j \in 1..Len(simLog.late) |-> simLog.late[j] \/ j < r], r),
             newest |-> IF simLog.late[r] THEN simLog.newest ELSE data.node_voltages]

\* inflight[r] fails
LogFailure(r) == simLog' = [simLog EXCEPT !.late = LogRemove(@, r)]

SimInit ==
  /\ comps = <<ValPlaced("R", "R1")>>
  /\ hist = <<FreshHist>>
  /\ mode = "R"
  /\ wires = <<>>
  /\ autoNodes = <<>>
  /\ placing = NullObj
  /\ activePort = NullObj
  /\ selected = NullObj
  /\ lastSimResult = NullObj
  /\ idCounter = 1
  /\ panel = NullObj
  /\ inflight = <<>>
  /\ out = NullObj
  /\ events = 0
  /\ UFIdle
  /\ simLog = NoLog

SimNext ==
  \/ Counted /\ \E m \in ToolChoices : ToolButton(m)
  \/ Counted /\ SvgPointerDown
  \/ Counted /\ \E i \in 1..Len(comps), k \in {"n1", "n2"} : PortClick(i, k)
  \/ Counted /\ \E i \in 1..Len(comps) : CompPointerDown(i)
  \/ Counted /\ ClearButton
  \/ Counted /\ KeyEscape
  \/ Tick /\ SimButtonUpTo(MaxRequests) /\ LogRequest
  \/ Tick /\ \E r \in 1..Len(inflight) :
                \E data \in SolverAnswers(inflight[r]) : SimResponse(r, data) /\ LogAnswer(r, data)
  \/ Tick /\ \E r \in 1..Len(inflight) : SimFailure(r) /\ LogFailure(r)

SpecSim == SimInit /\ [][SimNext]_vars

-----------------------------------------------------------------------------
(* The union-find under test: a UF_custom object (line 611) and the uf of   *)
(* generateNetlist (lines 553-555), both empty at first, receive the same   *)
(* calls of find and union, in any order, on the keys of UFKeys.            *)

UFKeys == {"a", "b", "c", "d"}

UFInit ==
  /\ Init
  /\ ufp = EmptyObj /\ ufg = EmptyObj /\ ufPairs = {} /\ ufLast = NullObj

\* uf.find(a) and find(a)
UFFind(a) ==
  /\ ufp' = UF_find(ufp, a).uf
  /\ ufg' = GN_find(ufg, a).uf
  /\ ufLast' = [op |-> "find", a |-> a, b |-> a, p |-> ufp, g |-> ufg,
                r |-> UF_find(ufp, a).r, rg |-> GN_find(ufg, a).r]
  /\ UNCHANGED ufPairs

\* uf.union(a, b) and union(a, b)
UFUnion(a, b) ==
  /\ ufp' = UF_union(ufp, a, b)
  /\ ufg' = GN_union(ufg, a, b)
  /\ ufPairs' = ufPairs \cup {{a, b}}
  /\ ufLast' = [op |-> "union", a |-> a, b |-> b, p |-> ufp, g |-> ufg,
                r |-> Null, rg |-> Null]

UFNext ==
  \/ \E a \in UFKeys : UFFind(a) /\ UNCHANGED <<docVars, mode, placing, activePort, selected, lastSimResult, idCounter, panel, inflight, out, hist, events, simLog>>
  \/ \E a, b \in UFKeys : UFUnion(a, b) /\ UNCHANGED <<docVars, mode, placing, activePort, selected, lastSimResult, idCounter, panel, inflight, out, hist, events, simLog>>

SpecUF == UFInit /\ [][UFNext]_vars

-----------------------------------------------------------------------------
(* The deployed copy, src/docs/app.js.  Its document has the same variables; *)
(* a wire endpoint is recorded as {compName, which, isNode} (lines 255,      *)
(* 268-269, 281, 300, 305), and its resolution passes read the endpoint's    *)
(* comp and port (lines 471-474, 512-513, 563-564).  The passes have no      *)
(* junction registration; the text of their other loops is the text of       *)
(* src/unnamed/part_000, whose definitions above are used for them.          *)

\* The tools of the toolbar used on the deployed copy
AppTools == {"R", "W", "GND", "DEL"}

\* obj[f] for an object given as a record: undefined when it has no such property
App_Get(obj, f) == IF f \in DOMAIN obj THEN obj[f] ELSE Undefined

\* app.js 255, 281: the endpoint recorded for a terminal
App_PortEndpoint(name, which) == [compName |-> name, which |-> which, isNode |-> FALSE]

\* app.js 300, 305: the endpoint recorded for a junction
App_NodeEndpoint(id) == [compName |-> Null, which |-> id, isNode |-> TRUE]

\* app.js 32-34: nextName, on the components cs
App_nextName(cs, prefix) ==
  prefix \o ToString(CHOOSE i \in 1..(Len(cs) + 1) :
                       /\ \A c \in 1..Len(cs) : cs[c].name # prefix \o ToString(i)
                       /\ \A j \in 1..(i - 1) :
                            \E c \in 1..Len(cs) : cs[c].name = prefix \o ToString(j))

\* app.js 437-444, 612-613: one step of a placement, on st = [comps, placing]
App_place(st, m) ==
  IF st.placing = NullObj
  THEN [st EXCEPT !.placing = [type |-> m, name |-> App_nextName(st.comps, m),
                               n1 |-> Undefined, n2 |-> Undefined,
                               value |-> defaultValue(m)]]
  ELSE [comps |-> Append(st.comps, [st.placing EXCEPT !.n1 = st.placing.name \o "_n1",
                                                      !.n2 = st.placing.name \o "_n2"]),
        placing |-> NullObj]

\* app.js 585-596: a tool button
App_ToolButton(m) ==
  /\ mode' = m
  /\ placing' = NullObj
  /\ activePort' = IF m = "W" THEN NullObj ELSE activePort
  /\ out' = NullObj
  /\ UNCHANGED <<comps, wires, autoNodes, selected, lastSimResult, idCounter, panel,
                 inflight, hist>>

\* app.js 609-616: pointerdown on the canvas
App_SvgPointerDown ==
  /\ mode \in Types
  /\ LET st == App_place([comps |-> comps, placing |-> placing], mode)
     IN /\ Len(st.comps) <= MaxComps
        /\ comps' = st.comps
        /\ placing' = st.placing
  /\ out' = NullObj
  /\ UNCHANGED <<wires, autoNodes, mode, activePort, selected, lastSimResult, idCounter,
                 panel, inflight, hist>>

\* app.js 297-334: handleWireNodeClick(node); nodes is autoNodes as
\* getOrCreateNodeAt left it
App_handleWireNodeClick(nodes, node) ==
  IF activePort = NullObj
  THEN /\ activePort' = App_NodeEndpoint(node.id)
       /\ autoNodes' = nodes
       /\ UNCHANGED <<comps, wires, idCounter>>
  ELSE LET a == activePort
           b == App_NodeEndpoint(node.id)
           ws == Append(wires, [id |-> "W" \o ToString(idCounter), p1 |-> a, p2 |-> b])
           merge == a.isNode /\ b.isNode
           keep == a.which
           drop == b.which
           ren(l) == IF merge /\ l = drop THEN keep ELSE l
           cs1 == [i \in 1..Len(comps) |->
                     [comps[i] EXCEPT !.n1 = ren(comps[i].n1), !.n2 = ren(comps[i].n2)]]
           ia == IF Truthy(a.compName) THEN CompsFind(a.compName) ELSE 0
       IN /\ idCounter <= MaxWireIds
          /\ idCounter' = idCounter + 1
          /\ wires' = [j \in 1..Len(ws) |->
                         [ws[j] EXCEPT !.p1.which = ren(ws[j].p1.which),
                                       !.p2.which = ren(ws[j].p2.which)]]
          /\ comps' = IF ia # 0 THEN SetLabel(cs1, ia, a.which, node.id) ELSE cs1
          /\ autoNodes' = nodes
          /\ activePort' = NullObj

\* app.js 423-431 and 617-637: click on the canvas, at (x, y); the two listeners
\* run one after the other
App_SvgClick(x, y) ==
  /\ out' = NullObj
  /\ UNCHANGED <<mode, lastSimResult, panel, inflight, hist>>
  /\ IF mode = "W"
     THEN LET got == getOrCreateNodeAt(x, y)
              ni == CHOOSE i \in 1..Len(got.nodes) :
                      /\ got.nodes[i].id = got.id
                      /\ \A j \in 1..(i - 1) : got.nodes[j].id # got.id
          IN /\ selected' = NullObj
             /\ App_handleWireNodeClick(got.nodes, got.nodes[ni])
             /\ UNCHANGED placing
     ELSE IF Truthy(mode) /\ mode # "MOVE"
     THEN LET st == App_place(App_place([comps |-> comps, placing |-> placing], mode),
                              mode)
          IN /\ Len(st.comps) <= MaxComps
             /\ comps' = st.comps
             /\ placing' = st.placing
             /\ UNCHANGED <<wires, autoNodes, activePort, selected, idCounter>>
     ELSE /\ selected' = NullObj
          /\ UNCHANGED <<comps, wires, autoNodes, placing, activePort, idCounter>>

\* app.js 253-295: handleWirePortClick(comp, which) for the component object comps[i]
App_handleWirePortClick(i, which) ==
  IF activePort = NullObj
  THEN /\ activePort' = App_PortEndpoint(comps[i].name, which)
       /\ out' = NullObj
       /\ UNCHANGED <<comps, wires, idCounter>>
  ELSE IF activePort.isNode
  THEN /\ idCounter <= MaxWireIds
       /\ comps' = SetLabel(comps, i, which, activePort.which)
       /\ wires' = Append(wires, [id |-> "W" \o ToString(idCounter), p1 |-> activePort,
                                  p2 |-> App_PortEndpoint(comps[i].name, which)])
       /\ idCounter' = idCounter + 1
       /\ activePort' = NullObj
       /\ out' = NullObj
  ELSE IF activePort.compName = comps[i].name /\ activePort.which = which
  THEN /\ activePort' = NullObj
       /\ out' = NullObj
       /\ UNCHANGED <<comps, wires, idCounter>>
  ELSE LET a == activePort
           b == App_PortEndpoint(comps[i].name, which)
           ia == CompsFind(a.compName)
           ib == CompsFind(b.compName)
           nameA == Or(comps[ia][a.which], comps[ia].name \o "_" \o a.which)
       IN /\ idCounter <= MaxWireIds
          /\ wires' = Append(wires, [id |-> "W" \o ToString(idCounter), p1 |-> a, p2 |-> b])
          /\ idCounter' = idCounter + 1
          /\ IF ia = 0
             THEN \* compA[a.which] with compA undefined
                  /\ out' = [op |-> "exception", in |-> "handleWirePortClick"]
                  /\ UNCHANGED <<comps, activePort>>
             ELSE /\ comps' = SetLabel(SetLabel(comps, ia, a.which, nameA), ib, b.which, nameA)
                  /\ activePort' = NullObj
                  /\ out' = NullObj

\* app.js 471-475, 512-514, 563-565: the two names a pass reads for the wire w;
\* ok is false when a[...] or b[...] is read on undefined
App_wireNames(w) ==
  LET ia == CompsFind(App_Get(w.p1, "comp"))
      ib == CompsFind(App_Get(w.p2, "comp"))
      pa == App_Get(w.p1, "port")
      pb == App_Get(w.p2, "port")
  IN IF ia = 0 \/ ib = 0 THEN [ok |-> FALSE]
     ELSE [ok |-> TRUE,
           a |-> Or(IF pa \in {"n1", "n2"} THEN comps[ia][pa] ELSE Undefined,
                    comps[ia].name \o "_" \o pa),
           b |-> Or(IF pb \in {"n1", "n2"} THEN comps[ib][pb] ELSE Undefined,
                    comps[ib].name \o "_" \o pb)]

\* app.js 469-476: wires.forEach(w => union(aName, bName))
RECURSIVE App_GN_unionWires(_, _)
App_GN_unionWires(uf, i) ==
  IF i > Len(wires) THEN [ok |-> TRUE, uf |-> uf]
  ELSE LET n == App_wireNames(wires[i])
       IN IF ~n.ok THEN [ok |-> FALSE]
          ELSE App_GN_unionWires(GN_union(uf, n.a, n.b), i + 1)

\* app.js 462-503: generateNetlist; ok is false when it raises a TypeError
App_generateNetlist ==
  LET w == App_GN_unionWires(GN_regComps(EmptyObj, 1), 1)
  IN IF ~w.ok THEN [ok |-> FALSE]
     ELSE LET st == GN_repsComps([uf |-> w.uf, reps |-> <<>>], 1)
          IN [ok |-> TRUE,
              lines |-> GN_lines([uf |-> st.uf,
                                  reps |-> GN_number(st.reps, ObjectKeys(st.reps), 1)],
                                 1, <<>>)]

\* app.js 511-515: wires.forEach(w => uf.union(an, bn)), in runSim and in probePort
RECURSIVE App_UF_unionWires(_, _)
App_UF_unionWires(p, i) ==
  IF i > Len(wires) THEN [ok |-> TRUE, uf |-> p]
  ELSE LET n == App_wireNames(wires[i])
       IN IF ~n.ok THEN [ok |-> FALSE]
          ELSE App_UF_unionWires(UF_union(p, n.a, n.b), i + 1)

\* app.js 506-533: the payload of runSim; ok is false when it raises a TypeError
App_payload ==
  LET w == App_UF_unionWires(RS_regComps(EmptyObj, 1), 1)
  IN IF ~w.ok THEN [ok |-> FALSE]
     ELSE LET st == RS_repsComps([uf |-> w.uf, reps |-> <<>>], 1)
          IN [ok |-> TRUE,
              components |-> RS_components([uf |-> st.uf,
                                            reps |-> RS_number(st.reps,
                                                               ObjectKeys(st.reps), 1)],
                                           1, <<>>)]

\* app.js 555-576: what probePort alerts (it returns at once when there is no
\* solver result); ok is false when it raises a TypeError
App_probePort(comp, which) ==
  LET g == App_generateNetlist
      w == App_UF_unionWires(PP_regComps(EmptyObj, 1), 1)
  IN IF lastSimResult = NullObj THEN [ok |-> TRUE, op |-> "return"]
     ELSE IF ~g.ok \/ ~w.ok THEN [ok |-> FALSE]
     ELSE LET st == PP_repsComps([uf |-> w.uf, reps |-> <<>>], 1)
              reps == PP_number(st.reps, ObjectKeys(st.reps), 1)
              nodeName == Or(ObjGet(reps, UF_find(st.uf, PP_key(comp, which)).r), "0")
          IN [ok |-> TRUE, op |-> "probePort", comp |-> comp.name, port |-> which,
              node |-> nodeName, v |-> VoltageOf(lastSimResult, nodeName)]

\* app.js 237-243: click on terminal `which` of the component object comps[i]
App_PortClick(i, which) ==
  /\ UNCHANGED <<autoNodes, placing, lastSimResult, panel, inflight, hist>>
  /\ IF mode = "W"
     THEN /\ App_handleWirePortClick(i, which)
          /\ UNCHANGED <<mode, selected>>
     ELSE IF mode = "GND"
     THEN /\ comps' = SetLabel(comps, i, which, "0")
          /\ mode' = Null
          /\ out' = NullObj
          /\ UNCHANGED <<wires, activePort, selected, idCounter>>
     ELSE IF lastSimResult # NullObj
     THEN /\ out' = LET r == App_probePort(comps[i], which)
                    IN IF r.ok THEN r ELSE [op |-> "exception", in |-> "probePort"]
          /\ UNCHANGED <<comps, wires, mode, activePort, selected, idCounter>>
     ELSE /\ selected' = [type |-> "comp", ref |-> comps[i].name]
          /\ out' = NullObj
          /\ UNCHANGED <<comps, wires, mode, activePort, idCounter>>

\* app.js 80-84: click on the dot of the junction autoNodes[j]
App_AutoNodeClick(j) ==
  /\ mode = "W"
  /\ App_handleWireNodeClick(autoNodes, autoNodes[j])
  /\ out' = NullObj
  /\ UNCHANGED <<mode, placing, selected, lastSimResult, panel, inflight, hist>>

\* app.js 135-145, 410-415: pointerdown on the body of comps[i] with the DEL tool:
\* deleteComponent
App_DeleteComponent(i) ==
  LET KeepW(w) == App_Get(w.p1, "comp") # comps[i].name
                    /\ App_Get(w.p2, "comp") # comps[i].name
      KeepC(cc) == cc.name # comps[i].name
  IN /\ mode = "DEL"
     /\ wires' = SelectSeq(wires, KeepW)
     /\ comps' = SelectSeq(comps, KeepC)
     /\ selected' = NullObj
     /\ out' = NullObj
     /\ UNCHANGED <<autoNodes, mode, placing, activePort, lastSimResult, idCounter, panel,
                    inflight, hist>>

\* app.js 599: the Netlist button
App_NetlistButton ==
  /\ out' = LET g == App_generateNetlist
            IN IF g.ok THEN [op |-> "netlist", lines |-> g.lines]
               ELSE [op |-> "exception", in |-> "generateNetlist"]
  /\ UNCHANGED <<comps, wires, autoNodes, mode, placing, activePort, selected,
                 lastSimResult, idCounter, panel, inflight, hist>>

\* app.js 598, 506-535: the Simulate button, up to the request being sent
App_SimButton ==
  /\ Len(inflight) < MaxInflight
  /\ LET pl == App_payload
     IN IF pl.ok
        THEN /\ inflight' = Append(inflight, [components |-> pl.components])
             /\ out' = NullObj
        ELSE /\ out' = [op |-> "exception", in |-> "runSim"]
             /\ UNCHANGED inflight
  /\ UNCHANGED <<comps, wires, autoNodes, mode, placing, activePort, selected,
                 lastSimResult, idCounter, panel, hist>>

\* app.js 536-541: the response to the request inflight[r] arrives and is ok
App_SimResponse(r, data) ==
  /\ inflight' = [j \in 1..(Len(inflight) - 1) |->
                    IF j < r THEN inflight[j] ELSE inflight[j + 1]]
  /\ lastSimResult' = [node_voltages |-> data.node_voltages]
  /\ out' = [op |-> "results", data |-> data]
  /\ UNCHANGED <<comps, wires, autoNodes, mode, placing, activePort, selected, idCounter,
                 panel, hist>>

AppNext ==
  \/ Counted /\ \E m \in AppTools : App_ToolButton(m)
  \/ Counted /\ App_SvgPointerDown
  \/ Counted /\ \E x \in ClickXs, y \in ClickYs : App_SvgClick(x, y)
  \/ Counted /\ \E i \in 1..Len(comps), k \in {"n1", "n2"} : App_PortClick(i, k)
  \/ Counted /\ \E j \in 1..Len(autoNodes) : App_AutoNodeClick(j)
  \/ Counted /\ \E i \in 1..Len(comps) : App_DeleteComponent(i)
  \/ Counted /\ App_NetlistButton
  \/ Counted /\ App_SimButton
  \/ Counted /\ \E r \in 1..Len(inflight) :
                   \E data \in {[node_voltages |-> SolverVoltages(inflight[r])]} :
                     App_SimResponse(r, data)

SpecApp == Init /\ [][AppNext]_vars

-----------------------------------------------------------------------------
(* What the properties below speak about *)

\* The terminals of the document: <<index in comps, port>>
Terminals == (1..Len(comps)) \X {"n1", "n2"}

\* The node name of terminal t on the lines of a netlist
NodeNameAt(lines, t) == lines[t[1]][IF t[2] = "n1" THEN 2 ELSE 3]

\* The node name of terminal t in the components of a payload
PayloadNameAt(recs, t) == recs[t[1]][t[2]]

\* The name generateNetlist gives to the union-find set of an identity key
NameOfSet(key) ==
  LET res == GN_resolve
  IN Or(ObjGet(res.reps, GN_find(res.uf, key).r), "0")

\* The last event showed `op`
Shows(op) == "op" \in DOMAIN out /\ out.op = op

\* The token sequence of node names, in the visiting order of the terminals
RECURSIVE VisitNames(_, _)
VisitNames(lines, i) ==
  IF i > Len(lines) THEN <<>>
  ELSE <<lines[i][2], lines[i][3]>> \o VisitNames(lines, i + 1)

-----------------------------------------------------------------------------
(* Resolution of a document: generateNetlist, runSim's payload, the probes *)

\* C1: every terminal whose identity key is in the same union-find set as a
\* terminal labelled '0' gets the node name "0", on the netlist shown and in the
\* payload of every request sent, whichever terminal of the set is visited first.
C1_GroundSetIsZero ==
  LET res == GN_resolve
  IN \A t \in Terminals, g \in Terminals :
       (/\ comps[g[1]][g[2]] = "0"
        /\ GN_find(res.uf, GN_key(comps[t[1]], t[2])).r = GN_find(res.uf, "0").r)
         => /\ Shows("netlist") => NodeNameAt(out.lines, t) = "0"
            /\ \A r \in 1..Len(inflight) :
                 PayloadNameAt(inflight[r].components, t) = "0"

\* C5: for every terminal, the node name probePort computes is the node name on
\* the terminal's line of generateNetlist, on the same document.
C5_ProbePortAgreesWithNetlist ==
  LET lines == generateNetlist
  IN /\ \A t \in Terminals : PP_nodeName(comps[t[1]], t[2]) = NodeNameAt(lines, t)
     /\ Shows("probePort") =>
          \E t \in Terminals : /\ comps[t[1]].name = out.comp /\ t[2] = out.port
                                /\ out.node = NodeNameAt(lines, t)

\* C5 happens: a probe of a terminal of a wired document showed the node "N2".
C5_Witness ==
  /\ Shows("probePort") /\ out.node = "N2" /\ Len(wires) >= 1
  /\ \E t \in Terminals : comps[t[1]][t[2]] = "7"

\* C6: for every component, n1 and n2 on its line of generateNetlist are n1 and n2
\* of its record in the payload runSim builds from the same document, and in the
\* payload of every request sent.
C6_NetlistAgreesWithPayload ==
  LET lines == generateNetlist
      recs == RS_payload.components
  IN /\ Len(recs) = Len(lines)
     /\ \A t \in Terminals :
          /\ NodeNameAt(lines, t) = PayloadNameAt(recs, t)
          /\ \A r \in 1..Len(inflight) :
               NodeNameAt(lines, t) = PayloadNameAt(inflight[r].components, t)

\* C6 happens: a request is in flight for a wired, partly grounded document
\* with a numbered node.
C6_Witness ==
  /\ Len(inflight) >= 1 /\ Len(wires) >= 1
  /\ \E t \in Terminals : PayloadNameAt(inflight[1].components, t) = "0"
  /\ \E t \in Terminals : PayloadNameAt(inflight[1].components, t) = "N2"

\* C7: the probe of a wire whose first endpoint is a junction shows the name
\* generateNetlist gives to the set of that junction, and the voltage the solver
\* returned for that name.
C7_ProbeWireShowsResolvedName ==
  Shows("probeWire") =>
    \A j \in 1..Len(wires) :
      (selected # NullObj /\ wires[j].id = selected.ref /\ wires[j].p1.isNode)
        => LET name == NameOfSet(wires[j].p1.nodeId)
           IN out.node = name /\ out.v = VoltageOf(lastSimResult, name)

\* C8: on the netlist shown, the sets that are not named "0" are named "N1",
\* "N2", ... in the order in which a terminal of each is first visited
\* (components in declaration order, n1 before n2).
C8_NumberedInVisitingOrder ==
  Shows("netlist") =>
    LET ns == VisitNames(out.lines, 1)
    IN \A p \in 1..Len(ns) :
         (ns[p] # "0" /\ \A q \in 1..(p - 1) : ns[q] # ns[p])
           => ns[p] = "N" \o ToString(1 + Cardinality({ns[q] : q \in 1..(p - 1)} \ {"0"}))

\* C9: the names of the representatives are pairwise different (so at most one is
\* "0"), and two terminals whose keys are in different sets have different node
\* names on the netlist.
C9_NamesInjective ==
  LET res == GN_resolve
      lines == generateNetlist
      set == [t \in Terminals |-> GN_find(res.uf, GN_key(comps[t[1]], t[2])).r]
  IN /\ \A a, b \in 1..Len(res.reps) : a # b => res.reps[a][2] # res.reps[b][2]
     /\ \A t, u \in Terminals :
          set[t] # set[u] => NodeNameAt(lines, t) # NodeNameAt(lines, u)

\* C9 happens: the netlist shown names a ground set and two numbered sets.
C9_Witness ==
  /\ Shows("netlist")
  /\ \E t, u, v \in Terminals :
       /\ NodeNameAt(out.lines, t) = "0"
       /\ NodeNameAt(out.lines, u) = "N1"
       /\ NodeNameAt(out.lines, v) = "N2"

-----------------------------------------------------------------------------
(* Editing sessions *)

\* C2: a terminal grounded with the GND tool, whose component was not deleted and
\* whose label was not typed since, has the node name "0" in generateNetlist.
C2_GroundedTerminalIsZero ==
  LET lines == generateNetlist
  IN \A t \in Terminals : hist[t[1]][t[2]] = "gnd" => NodeNameAt(lines, t) = "0"

\* C3: once the only wire ever drawn (idCounter = 2), a wire between two terminals
\* of uniquely named components that were never grounded and never labelled by the
\* user (the only two terminals with the history "wired"), is deleted, the two
\* terminals have different node names in generateNetlist.
C3_DeletedWireSplits ==
  LET lines == generateNetlist
  IN (/\ idCounter = 2 /\ wires = <<>> /\ autoNodes = <<>>
      /\ \A i, j \in 1..Len(comps) : i # j => comps[i].name # comps[j].name)
       => \A t, u \in Terminals :
            (t # u /\ hist[t[1]][t[2]] = "wired" /\ hist[u[1]][u[2]] = "wired")
              => NodeNameAt(lines, t) # NodeNameAt(lines, u)

\* C4: in a document whose components have pairwise different names, a terminal
\* that was never a wire endpoint, never grounded and never labelled by the user
\* has a node name in generateNetlist that is not "0" and that no other terminal
\* has.
C4_PristineTerminalIsAlone ==
  LET lines == generateNetlist
  IN (\A i, j \in 1..Len(comps) : i # j => comps[i].name # comps[j].name)
       => \A t \in Terminals :
            hist[t[1]][t[2]] = "pristine"
              => /\ NodeNameAt(lines, t) # "0"
                 /\ \A u \in Terminals \ {t} :
                      NodeNameAt(lines, u) # NodeNameAt(lines, t)

\* C18: while a wiring gesture awaits its second endpoint, a click on the endpoint
\* that started it (the same terminal, or the dot of the same junction) ends the
\* gesture (activePort null) and changes none of comps, wires and autoNodes.
C18_ReclickCancels ==
  [][/\ \A i \in 1..Len(comps), k \in {"n1", "n2"} :
          (/\ mode = "W" /\ activePort # NullObj /\ ~activePort.isNode
           /\ activePort.comp = comps[i].name /\ activePort.port = k
           /\ PortClick(i, k))
            => activePort' = NullObj /\ UNCHANGED docVars
     /\ \A j \in 1..Len(autoNodes) :
          (/\ mode = "W" /\ activePort # NullObj /\ activePort.isNode
           /\ activePort.nodeId = autoNodes[j].id
           /\ AutoNodeClick(j))
            => activePort' = NullObj /\ UNCHANGED docVars]_vars

\* The wire endpoint ep is the endpoint e of a gesture
EndpointIs(ep, e) ==
  /\ ep.isNode = e.isNode
  /\ IF e.isNode THEN ep.nodeId = e.nodeId ELSE ep.comp = e.comp /\ ep.port = e.port

\* The step added one wire, from endpoint e1 to endpoint e2 and with an id no wire
\* had, and ended the gesture
CommitsWire(e1, e2) ==
  /\ activePort' = NullObj
  /\ Len(wires') = Len(wires) + 1
  /\ LET w == wires'[Len(wires')]
     IN /\ EndpointIs(w.p1, e1) /\ EndpointIs(w.p2, e2)
        /\ \A j \in 1..Len(wires) : wires[j].id # w.id

\* C24: while a wiring gesture awaits its second endpoint, a click on another
\* terminal or junction adds one wire from the first endpoint to the clicked one,
\* with a fresh id, and ends the gesture; and no step leaves the gesture awaiting
\* with another first endpoint.
C24_SecondClickCommits ==
  [][/\ \A i \in 1..Len(comps), k \in {"n1", "n2"} :
          (/\ mode = "W" /\ activePort # NullObj
           /\ ~EndpointIs(PortEndpoint(comps[i].name, k), activePort)
           /\ PortClick(i, k))
            => CommitsWire(activePort, PortEndpoint(comps[i].name, k))
     /\ \A j \in 1..Len(autoNodes) :
          (/\ mode = "W" /\ activePort # NullObj
           /\ ~EndpointIs(NodeEndpoint(autoNodes[j].id), activePort)
           /\ AutoNodeClick(j))
            => CommitsWire(activePort, NodeEndpoint(autoNodes[j].id))
     /\ (activePort # NullObj /\ activePort' # NullObj) => activePort' = activePort]_vars

\* The node names generateNetlist gives to the wire endpoint ep: the name of the
\* set of a junction, the names on the lines of the terminals ep.port of the
\* components named ep.comp that have been wire endpoints
EndpointNames(ep, lines) ==
  IF ep.isNode THEN {NameOfSet(ep.nodeId)}
  ELSE {NodeNameAt(lines, <<i, ep.port>>) :
          i \in {j \in 1..Len(comps) :
                   comps[j].name = ep.comp /\ hist[j][ep.port] # "pristine"}}

\* C26: the two endpoints of every wire of the document have the same node name
\* in generateNetlist.
C26_WireEndsShareNode ==
  LET lines == generateNetlist
  IN \A j \in 1..Len(wires) :
       \A a \in EndpointNames(wires[j].p1, lines), b \in EndpointNames(wires[j].p2, lines) :
         a = b

\* C27: every wire endpoint that is a component terminal names a component of
\* comps, and no handler stopped on an exception.
C27_NoDanglingTerminal ==
  /\ \A j \in 1..Len(wires) :
       /\ ~wires[j].p1.isNode => CompsFind(wires[j].p1.comp) # 0
       /\ ~wires[j].p2.isNode => CompsFind(wires[j].p2.comp) # 0
  /\ ~Shows("exception")

\* The junction ids that the wire endpoints of ws refer to
JunctionRefs(ws) ==
  {ws[j].p1.nodeId : j \in {i \in 1..Len(ws) : ws[i].p1.isNode}}
    \cup {ws[j].p2.nodeId : j \in {i \in 1..Len(ws) : ws[i].p2.isNode}}

\* C28: every junction id a wire endpoint refers to is the id of a junction of
\* autoNodes; and a click on the junction autoNodes[j], while the gesture awaits
\* with another junction as first endpoint, removes from autoNodes the one of the
\* two with the higher number, and that one only, and leaves no wire endpoint and
\* no terminal label referring to it.
C28_JunctionRefsValid ==
  /\ [](JunctionRefs(wires) \subseteq {autoNodes[j].id : j \in 1..Len(autoNodes)})
  /\ [][\A j \in 1..Len(autoNodes) :
          (/\ mode = "W" /\ activePort # NullObj /\ activePort.isNode
           /\ activePort.nodeId # autoNodes[j].id
           /\ AutoNodeClick(j))
            => LET a == activePort.nodeId
                   b == autoNodes[j].id
                   hi == IF NodeNumber(a) > NodeNumber(b) THEN a ELSE b
               IN /\ autoNodes' = SelectSeq(autoNodes, LAMBDA n : n.id # hi)
                  /\ hi \notin JunctionRefs(wires')
                  /\ \A i \in 1..Len(comps') : comps'[i].n1 # hi /\ comps'[i].n2 # hi]_vars

\* C29: no two junctions of autoNodes have the same id, and no two have the same
\* snapped coordinates.
C29_JunctionsDistinct ==
  \A i, j \in 1..Len(autoNodes) :
    i # j => /\ autoNodes[i].id # autoNodes[j].id
             /\ <<autoNodes[i].x, autoNodes[i].y>> # <<autoNodes[j].x, autoNodes[j].y>>

\* C30: whenever no request is in flight and lastSimResult is not null,
\* lastSimResult holds the answer to the most recently sent request among those
\* answered with success.
C30_LatestRequestWins ==
  (Len(inflight) = 0 /\ lastSimResult # NullObj)
    => lastSimResult.node_voltages = simLog.newest

\* C31: a step that shows the netlist, redraws the port tags (computeNetMapping),
\* sends a request (runSim has built its payload) or shows the probe of a terminal
\* or of a wire leaves comps, with every terminal label, wires and autoNodes as
\* they were.
C31_ReadersLeaveDocument ==
  [][(\/ Shows("netlist")' \/ Shows("redraw")'
      \/ Len(inflight') = Len(inflight) + 1
      \/ Shows("probePort")' \/ Shows("probeWire")')
       => UNCHANGED docVars]_vars

\* C31 happens: a wired document with a typed label has been simulated and probed,
\* and is being redrawn.
C31_Witness ==
  /\ Shows("redraw") /\ lastSimResult # NullObj /\ Len(inflight) = 1
  /\ Len(wires) >= 1 /\ Len(autoNodes) = 1 /\ panel # NullObj
  /\ \E t \in Terminals : comps[t[1]][t[2]] = "7"

\* C32: for every terminal, the text of its port tag (computeNetMapping looked up
\* by the terminal's identity key) is the node name on the terminal's line of
\* generateNetlist, on the same document.
C32_TagAgreesWithNetlist ==
  LET lines == generateNetlist
      map == computeNetMapping
  IN /\ \A t \in Terminals : PortTag(map, comps[t[1]], t[2]) = NodeNameAt(lines, t)
     /\ Shows("redraw") =>
          \A t \in Terminals : out.tags[t[1]][t[2]] = NodeNameAt(lines, t)

\* C32 happens: the redraw of a wired document with a typed label showed the tag
\* "N2" on a terminal and "0" on another.
C32_Witness ==
  /\ Shows("redraw") /\ Len(wires) >= 1
  /\ \E t \in Terminals : comps[t[1]][t[2]] = "7"
  /\ \E t, u \in Terminals : out.tags[t[1]][t[2]] = "N2" /\ out.tags[u[1]][u[2]] = "0"

\* C33: the wiring gesture awaits its second endpoint only while the wire tool is
\* active: activePort is not null only when mode is 'W'.
C33_AwaitingOnlyInWireMode == activePort # NullObj => mode = "W"

\* C34: a click on terminal k of comps[i] while the GND tool is active sets the
\* label of that terminal to '0' and mode to null; every other label, the list of
\* components, wires, autoNodes, activePort and lastSimResult stay as they were.
C34_GroundClickFrame ==
  [][\A i \in 1..Len(comps), k \in {"n1", "n2"} :
       (mode = "GND" /\ PortClick(i, k))
         => /\ Len(comps') = Len(comps)
            /\ \A j \in 1..Len(comps) :
                 comps'[j] = IF j = i THEN [comps[i] EXCEPT ![k] = "0"] ELSE comps[j]
            /\ comps'[i][k] = "0"
            /\ mode' = Null
            /\ UNCHANGED <<wires, autoNodes, activePort, lastSimResult>>]_vars

\* C34 happens: a terminal was grounded by the GND tool while a wiring gesture was
\* awaiting its second endpoint, in a document with a wire and a solver result.
C34_Witness ==
  /\ mode = Null /\ activePort # NullObj /\ Len(wires) >= 1 /\ lastSimResult # NullObj
  /\ \E t \in Terminals : hist[t[1]][t[2]] = "gnd" /\ comps[t[1]][t[2]] = "0"

\* C23: no two components of comps have the same name.
C23_UniqueNames ==
  \A i, j \in 1..Len(comps) : i # j => comps[i].name # comps[j].name

\* C12: in every document an editing session reaches, generateNetlist gives one
\* line per component and runSim's payload one record per component, the i-th
\* line and the i-th record being those of the i-th component of comps.
C12_OnePerComponentInOrder ==
  LET lines == generateNetlist
      recs == RS_payload.components
  IN /\ Len(lines) = Len(comps)
     /\ Len(recs) = Len(comps)
     /\ \A i \in 1..Len(comps) :
          /\ lines[i][1] = comps[i].name
          /\ recs[i].name = comps[i].name /\ recs[i].type = comps[i].type
     /\ Shows("netlist") => Len(out.lines) = Len(comps)

\* C12 happens: the netlist is shown of a document with a resistor, then a
\* voltage source, and a wire.
C12_Witness ==
  /\ Shows("netlist") /\ Len(comps) = 2 /\ Len(wires) >= 1
  /\ comps[1].type = "R" /\ comps[2].type = "V"
  /\ out.lines[2][1] = comps[2].name

-----------------------------------------------------------------------------
(* The values of the components *)

\* The value of component c is missing or is not a number
NoNumber(c) == c.value.kind # "number" \/ c.value.text = "NaN"

\* C13: for a component of type R, V, I, C or L whose value is missing or not a
\* number, the line of the netlist shown ends with the default of its type and the
\* record in the payload of every request sent carries that default.
C13_DefaultForBadValue ==
  \A i \in 1..Len(comps) :
    (NoNumber(comps[i]) /\ comps[i].type # "D")
      => /\ Shows("netlist") =>
              out.lines[i][Len(out.lines[i])] = defaultValue(comps[i].type).text
         /\ \A r \in 1..Len(inflight) :
              inflight[r].components[i].value = defaultValue(comps[i].type)

\* The value a line shows for component c: its value, or the default of its type
\* when the value is falsy
ValueShown(c) == IF ValTruthy(c.value) THEN c.value.text ELSE defaultValue(c.type).text

\* The node names a document of at most two components can show
LineNodeNames == {"0", "N1", "N2", "N3", "N4"}

-----------------------------------------------------------------------------
(* Probing *)

\* C15: when the node name a probe of a terminal resolved has no entry in
\* lastSimResult.node_voltages, the probe shows 0 V, whatever the other entries.
C15_AbsentNodeReportsZero ==
  (Shows("probePort") /\ out.node \notin DOMAIN lastSimResult.node_voltages)
    => out.v = 0

-----------------------------------------------------------------------------
(* Simulating while editing *)

\* C19: at most one solve request awaits its response at any time.
C19_OneRequestInFlight == Len(inflight) <= 1

\* C20: when the answer to a request has just arrived (the results panel shows
\* it), lastSimResult holds its node_voltages, whatever was edited since the
\* request was built.
C20_ResponseStored ==
  (Shows("results") /\ "data" \in DOMAIN out)
    => lastSimResult = [node_voltages |-> out.data.node_voltages]

\* C20 happens: the answer to a request built from a document with two numbered
\* nodes has just arrived, after the document was cleared.
C20_Witness ==
  /\ Shows("results") /\ "data" \in DOMAIN out
  /\ "N2" \in DOMAIN out.data.node_voltages
  /\ comps = <<>>

\* C21: a probe of a terminal shows a voltage recorded in lastSimResult only when
\* lastSimResult is the solver's answer to the payload of the document as it is
\* now.
C21_ProbeOnlyFromCurrentResult ==
  (Shows("probePort") /\ out.node \in DOMAIN lastSimResult.node_voltages)
    => lastSimResult.node_voltages = SolverVoltages(RS_payload)

\* C25: the Escape key pressed while a wiring gesture awaits its second endpoint
\* sets activePort, placing and mode to null and leaves comps, wires, autoNodes
\* and lastSimResult as they were.
C25_EscapeCancels ==
  [][(activePort # NullObj /\ KeyEscape)
       => /\ activePort' = NullObj /\ placing' = NullObj /\ mode' = Null
          /\ UNCHANGED <<comps, wires, autoNodes, lastSimResult>>]_vars

\* C25 happens: the session has an event left (Escape can be pressed) while a
\* gesture awaits its second endpoint, a placement is pending, a wire was drawn
\* and a solver answer is held.
C25_Witness ==
  /\ events < MaxEvents
  /\ activePort # NullObj /\ placing # NullObj /\ mode # Null
  /\ lastSimResult # NullObj /\ Len(wires) >= 1

\* The results panel shows the text of a failed solver call
ShowsError == Shows("results") /\ "text" \in DOMAIN out /\ out.text = "Simulation error"

\* C22: the step that shows 'Simulation error' in the results panel takes one
\* request out of those in flight and sends none, and leaves lastSimResult, comps,
\* wires and autoNodes as they were.
C22_FailureShownNoRetry ==
  [][(events' = events + 1 /\ ShowsError')
       => /\ Len(inflight') = Len(inflight) - 1
          /\ lastSimResult' = lastSimResult
          /\ UNCHANGED docVars]_vars

\* C22 happens: a solver call has just failed while another request is in flight,
\* an earlier answer is held and the document has two components.
C22_Witness ==
  /\ ShowsError /\ Len(inflight) = 1 /\ lastSimResult # NullObj /\ Len(comps) = 2

-----------------------------------------------------------------------------
(* The union-find *)

\* The last call was union
LastUnion == "op" \in DOMAIN ufLast /\ ufLast.op = "union"

\* C16: after union(a, b), for every key x, find(x) is the former find(a) when x
\* was in the set of a or of b and these were different sets, and the former
\* find(x) otherwise; on UF_custom and on the find/union of generateNetlist.
C16_UnionKeepsRepOfFirst ==
  LastUnion =>
    LET ra == UF_find(ufLast.p, ufLast.a).r
        rb == UF_find(ufLast.p, ufLast.b).r
        ga == GN_find(ufLast.g, ufLast.a).r
        gb == GN_find(ufLast.g, ufLast.b).r
    IN \A x \in UFKeys :
         /\ UF_find(ufp, x).r =
              (IF ra # rb /\ UF_find(ufLast.p, x).r \in {ra, rb} THEN ra
               ELSE UF_find(ufLast.p, x).r)
         /\ GN_find(ufg, x).r =
              (IF ga # gb /\ GN_find(ufLast.g, x).r \in {ga, gb} THEN ga
               ELSE GN_find(ufLast.g, x).r)

\* C16 happens: union(a, b) was called on two different sets of two keys each,
\* neither a nor b being the representative of its set.
C16_Witness ==
  /\ LastUnion
  /\ ufLast.a \in DOMAIN ufLast.p /\ ufLast.b \in DOMAIN ufLast.p
  /\ ufLast.p[ufLast.a] # ufLast.a /\ ufLast.p[ufLast.b] # ufLast.b
  /\ ufLast.p[ufLast.a] # ufLast.p[ufLast.b]

\* The keys reached from the keys of S along the pairs passed to union, in at
\* most n steps
RECURSIVE Reach(_, _)
Reach(S, n) ==
  IF n = 0 THEN S
  ELSE Reach(S \cup {y \in UFKeys : \E x \in S : {x, y} \in ufPairs}, n - 1)

\* a and b are related by the reflexive, symmetric, transitive closure of the
\* pairs passed to union
Connected(a, b) == b \in Reach({a}, Cardinality(UFKeys))

\* C17: after any sequence of find and union calls, find(a) === find(b) exactly
\* when a and b are related by the closure of the pairs passed to union; on
\* UF_custom and on the find/union of generateNetlist.
C17_FindIffConnected ==
  \A a, b \in UFKeys :
    LET fa == UF_find(ufp, a)
        fb == UF_find(fa.uf, b)
        ga == GN_find(ufg, a)
        gb == GN_find(ga.uf, b)
    IN /\ (fa.r = fb.r) <=> Connected(a, b)
       /\ (ga.r = gb.r) <=> Connected(a, b)

\* C17 happens: three keys are connected through two unions, in a forest where a
\* key is two links away from its representative, and a fourth key is apart.
C17_Witness ==
  /\ \E x \in DOMAIN ufp : ufp[x] # x /\ ufp[ufp[x]] # ufp[x]
  /\ Connected("a", "c") /\ {"a", "c"} \notin ufPairs
  /\ ~Connected("a", "d")

-----------------------------------------------------------------------------
(* The three-component loop *)

\* The payload expected of the loop
LoopPayload ==
  <<[type |-> "V", name |-> "V1", n1 |-> "0", n2 |-> "N1", value |-> Num("5")],
    [type |-> "R", name |-> "R1", n1 |-> "N1", n2 |-> "N2", value |-> Num("1000")],
    [type |-> "R", name |-> "R2", n1 |-> "N2", n2 |-> "0", value |-> Num("1000")]>>

\* C11: on the loop V1, R1, R2 with V1.n1 labelled '0', the payload runSim builds,
\* and the payload of every request it sent, is
\* [{V,V1,0,N1,5}, {R,R1,N1,N2,1000}, {R,R2,N2,0,1000}].
C11_LoopPayload ==
  /\ RS_payload.components = LoopPayload
  /\ \A r \in 1..Len(inflight) : inflight[r].components = LoopPayload

\* C11 happens: a request was sent for the loop whose first wire was drawn from
\* R2.n2 to the grounded V1.n1, and an earlier request was answered.
C11_Witness ==
  /\ Len(inflight) >= 1 /\ lastSimResult # NullObj
  /\ wires[1].p1 = PortEndpoint("R2", "n2") /\ wires[1].p2 = PortEndpoint("V1", "n1")

\* C35: for every component of type R, V, I, C or L whose value is a number (0
\* included), the value at the end of its line of generateNetlist is the value of
\* its record in the payload of runSim and is the value stored in the component.
C35_ValueAgrees ==
  LET lines == generateNetlist
      recs == RS_payload.components
  IN \A i \in 1..Len(comps) :
       (comps[i].type # "D" /\ ~NoNumber(comps[i]))
         => /\ recs[i].value = comps[i].value
            /\ lines[i][Len(lines[i])] = recs[i].value.text
            /\ lines[i][Len(lines[i])] = comps[i].value.text

\* C36: in the deployed copy, on every document its editing actions reach,
\* generateNetlist, the payload construction of runSim and probePort complete
\* without raising an exception, and both endpoints of every wire are resolved to
\* a component of the document.
C36_AppResolvesEveryWire ==
  /\ App_generateNetlist.ok
  /\ App_payload.ok
  /\ \A i \in 1..Len(comps), k \in {"n1", "n2"} : App_probePort(comps[i], k).ok
  /\ \A j \in 1..Len(wires) :
       /\ CompsFind(App_Get(wires[j].p1, "comp")) # 0
       /\ CompsFind(App_Get(wires[j].p2, "comp")) # 0
  /\ ~Shows("exception")

=============================================================================
